---- MODULE Spec2Model ----
(***************************************************************************)
(* A model of the music-notes application: the audio transport             *)
(* (useAudioManager), the note store and the note list (DatabaseService,   *)
(* useNoteManager), the page that wires them (ProjectPage), the waveform   *)
(* view (WaveformView) and the playback-synchronised preview (NotePreview).*)
(*                                                                         *)
(* Numbers.  A JavaScript number is modelled as an exact rational          *)
(* <<numerator, denominator>> in lowest terms with denominator > 0, as an  *)
(* infinity or as NaN.  Every comparison with NaN is false and every       *)
(* arithmetic operation on NaN yields NaN, as in IEEE-754; rounding of     *)
(* finite values and the sign of zero are not modelled.  Times are in      *)
(* seconds, positions in CSS pixels.                                       *)
(***************************************************************************)
EXTENDS Integers, Sequences, FiniteSets, TLC

VARIABLES
    playbackState,      \* useAudioManager: [isPlaying, currentTime, duration, volume]
    audioRef,           \* useAudioManager: audioRef.current, 0 = null, else index in audios
    audios,             \* the HTMLAudioElements created by loadAudio
    currentProject,     \* ProjectPage: currentProject?.id, 0 = null
    audioFile,          \* ProjectPage: audioFile, 0 = null, else the generation of the object
    viewMode,           \* ProjectPage: 'waveform' | 'list'
    selectedNote,       \* ProjectPage: selectedNote, NoNote = null
    showNoteModal,      \* ProjectPage: showNoteModal
    noteModalTimestamp, \* ProjectPage: noteModalTimestamp
    notes,              \* useNoteManager: notes
    hookSelectedNote,   \* useNoteManager: selectedNote
    dbNotes,            \* DatabaseService: rows of table notes, in rowid order
    storeCalls,         \* store calls of useNoteManager that have not settled yet
    nextId,             \* the next identifier uuidv4() hands out
    emitted,            \* the last pointer event of the canvas and the callbacks it invoked
    waveformData,       \* WaveformView: waveformData, NoWave = null
    isLoading,          \* WaveformView: isLoading
    decodes,            \* WaveformView: the generateWaveform runs awaiting decodeAudioFile
    lastDecode,         \* WaveformView: the run that left its await last, NoRun = none
    waveMounted,        \* a WaveformView instance is mounted
    hostError,          \* an exception escaped WaveformView into the host
    dbProjects,         \* DatabaseService: rows of table projects, in rowid order
    audioFiles,         \* IndexedDBService: the records of the store audioFiles
    mnzFiles,           \* the .mnz files exportProject has handed to the browser
    initialized,        \* DatabaseService: initialized
    db,                 \* DatabaseService: db, [object, rows]; object 0 = null
    savedData,          \* IndexedDB: the data of the record 'sqlite-database'
    requests,           \* IndexedDB: the requests made and not yet carried out
    operations          \* DatabaseService: the position of each operation called

playVars == <<playbackState, audioRef, audios>>
pageVars == <<currentProject, audioFile, viewMode, selectedNote, showNoteModal,
              noteModalTimestamp>>
noteVars == <<notes, hookSelectedNote, dbNotes, storeCalls, nextId>>
waveVars == <<waveformData, isLoading, decodes, lastDecode, waveMounted, hostError>>
initVars == <<initialized, db, savedData, requests, operations>>
exportVars == <<dbProjects, audioFiles, mnzFiles, initVars>>
vars == <<playVars, pageVars, noteVars, waveVars, emitted, exportVars>>

----------------------------------------------------------------------------
(* Bounds of the model. *)

MaxAudios == 2          \* HTMLAudioElements loadAudio may create
MaxNotes == 2           \* notes a drawn note list holds
MaxCreated == 2         \* notes createNote may create in one behaviour
MaxCalls == 1           \* store calls in flight at once
MaxCallsAtSwitch == 2   \* store calls in flight at once, a project change included
MaxOperations == 3      \* operations of DatabaseService called in one behaviour
MaxDecodes == 2         \* generateWaveform runs awaiting their decode at once
ViewportWidth == 40     \* rect.width of the waveform container, in pixels
SampleCount == 4        \* peaks of a waveform; the code's "samples" is 1000
MaxSamples == 9         \* samples of a decoded channel

(* Program constants. *)

NoteTolerance == 2      \* NotePreview: const tolerance = 2
ClickTolerance == 10    \* WaveformView: const tolerance = 10; // pixels
SeekStep == 5           \* ProjectPage: playbackState.currentTime -/+ 5

----------------------------------------------------------------------------
(* JavaScript numbers: <<n, d>> with d > 0 in lowest terms is n/d,          *)
(* <<1, 0>> is Infinity, <<-1, 0>> is -Infinity and <<0, 0>> is NaN.        *)

Abs(n) == IF n < 0 THEN 0 - n ELSE n

RECURSIVE GCD(_, _)
GCD(a, b) == IF b = 0 THEN a ELSE GCD(b, a % b)

NaN == <<0, 0>>
IsNaN(r) == r = NaN

\* n/d for d >= 0
Rat(n, d) ==
    IF n = 0 /\ d = 0 THEN NaN
    ELSE LET g == GCD(Abs(n), d) IN <<n \div g, d \div g>>
Num(n) == <<n, 1>>

RLeq(a, b) ==
    /\ ~IsNaN(a)
    /\ ~IsNaN(b)
    /\ IF a[2] = 0 /\ b[2] = 0 THEN a[1] <= b[1] ELSE a[1] * b[2] <= b[1] * a[2]
RLt(a, b) ==
    /\ ~IsNaN(a)
    /\ ~IsNaN(b)
    /\ IF a[2] = 0 /\ b[2] = 0 THEN a[1] < b[1] ELSE a[1] * b[2] < b[1] * a[2]
RNeg(a) == <<0 - a[1], a[2]>>
RAdd(a, b) ==
    IF IsNaN(a) \/ IsNaN(b) THEN NaN
    ELSE IF a[2] = 0 /\ b[2] = 0 THEN (IF a = b THEN a ELSE NaN)
    ELSE Rat(a[1] * b[2] + b[1] * a[2], a[2] * b[2])
RSub(a, b) == RAdd(a, RNeg(b))
RAbs(a) == <<Abs(a[1]), a[2]>>
RMul(a, b) == Rat(a[1] * b[1], a[2] * b[2])
\* 1/b
RRecip(b) ==
    IF b[1] > 0 THEN <<b[2], b[1]>>
    ELSE IF b[1] < 0 THEN <<0 - b[2], 0 - b[1]>>
    ELSE IF IsNaN(b) THEN NaN ELSE <<1, 0>>
RDiv(a, b) == RMul(a, RRecip(b))
\* Math.max(a, b) and Math.min(a, b): NaN if either argument is NaN.
RMax(a, b) == IF IsNaN(a) \/ IsNaN(b) THEN NaN ELSE IF RLt(a, b) THEN b ELSE a
RMin(a, b) == IF IsNaN(a) \/ IsNaN(b) THEN NaN ELSE IF RLt(b, a) THEN b ELSE a
\* !x for a number x: true for 0 and NaN
Falsy(a) == a = Num(0) \/ IsNaN(a)

----------------------------------------------------------------------------
(* types/index.ts: Note.  createdAt and updatedAt are left out: no          *)
(* operation of the model reads them.                                      *)

NoNote == [id |-> 0]

MkNote(id, timestamp, content, color, projectId) ==
    [id |-> id, timestamp |-> timestamp, content |-> content, color |-> color,
     projectId |-> projectId]

Range(s) == {s[i] : i \in 1..Len(s)}

----------------------------------------------------------------------------
(* NotePreview. *)

\* Math.abs(note.timestamp - currentTime)
Distance(note, currentTime) == RAbs(RSub(note.timestamp, currentTime))

\* One step of Array.prototype.sort with the comparator
\* (a, b) => |a.timestamp - currentTime| - |b.timestamp - currentTime|:
\* the sort is stable, so an element goes after the elements that compare
\* less than or equal to it.
RECURSIVE InsertByDistance(_, _, _)
InsertByDistance(sorted, note, currentTime) ==
    IF sorted = <<>> THEN <<note>>
    ELSE IF RLt(Distance(note, currentTime), Distance(sorted[Len(sorted)], currentTime))
         THEN Append(InsertByDistance(SubSeq(sorted, 1, Len(sorted) - 1), note,
                                      currentTime),
                     sorted[Len(sorted)])
         ELSE Append(sorted, note)

RECURSIVE SortByDistance(_, _)
SortByDistance(s, currentTime) ==
    IF s = <<>> THEN <<>>
    ELSE InsertByDistance(SortByDistance(SubSeq(s, 1, Len(s) - 1), currentTime),
                          s[Len(s)], currentTime)

\* The mutants of ActiveNotes: without the isPlaying gate, with a strict
\* tolerance test, and without the sort.
ActiveNotes_NoGate(ns, currentTime, isPlaying) ==
    SortByDistance(
        SelectSeq(ns, LAMBDA n : RLeq(Distance(n, currentTime), Num(NoteTolerance))),
        currentTime)

ActiveNotes_Strict(ns, currentTime, isPlaying) ==
    IF ~isPlaying THEN <<>>
    ELSE SortByDistance(
        SelectSeq(ns, LAMBDA n : RLt(Distance(n, currentTime), Num(NoteTolerance))),
        currentTime)

ActiveNotes_NoSort(ns, currentTime, isPlaying) ==
    IF ~isPlaying THEN <<>>
    ELSE SelectSeq(ns, LAMBDA n : RLeq(Distance(n, currentTime), Num(NoteTolerance)))

\* const activeNotes = useMemo(...)
ActiveNotes(ns, currentTime, isPlaying) ==
    IF ~isPlaying THEN <<>>
    ELSE SortByDistance(
        SelectSeq(ns, LAMBDA n : RLeq(Distance(n, currentTime), Num(NoteTolerance))),
        currentTime)

activeNotes == ActiveNotes(notes, playbackState.currentTime, playbackState.isPlaying)

\* const primaryNote = activeNotes[0]; undefined when activeNotes is empty
PrimaryNote(active) == IF active = <<>> THEN NoNote ELSE active[1]

primaryNote == PrimaryNote(activeNotes)

\* What NotePreview renders for the props (notes, currentTime, isPlaying):
\* null, or the motion.div keyed by primaryNote.id.
Render(ns, currentTime, isPlaying) ==
    LET primary == PrimaryNote(ActiveNotes(ns, currentTime, isPlaying))
    IN  IF ~isPlaying \/ primary = NoNote
        THEN [state |-> "Idle", id |-> 0]
        ELSE [state |-> "Primary", id |-> primary.id]

Display == Render(notes, playbackState.currentTime, playbackState.isPlaying)

----------------------------------------------------------------------------
(* useAudioManager.  An HTMLAudioElement is [currentTime, paused,           *)
(* duration]; it has ended playback when currentTime = duration.           *)

Durations == {0, 6}

\* the element's own behaviour on element.currentTime = time: the new
\* position is kept within [0, duration]
ElementSeek(el, time) ==
    [el EXCEPT !.currentTime = RMax(Num(0), RMin(time, el.duration))]

\* the element's own behaviour on element.play(): an element that has ended
\* playback starts again from the beginning
ElementPlay(el) ==
    [el EXCEPT !.paused = FALSE,
               !.currentTime = IF el.currentTime = el.duration THEN Num(0) ELSE @]

\* loadAudio: new Audio(url) and its 'loadedmetadata' listener.  The element
\* has no effect on the state before that event, so creation and event are
\* one step.
LoadedMetadata(d) ==
    /\ Len(audios) < MaxAudios
    /\ audios' = Append(audios, [currentTime |-> Num(0), paused |-> TRUE,
                                 duration |-> Num(d)])
    /\ audioRef' = Len(audios) + 1
    /\ playbackState' = [playbackState EXCEPT !.duration = Num(d),
                                              !.currentTime = Num(0)]

play ==
    /\ audioRef # 0
    /\ audios' = [audios EXCEPT ![audioRef] = ElementPlay(@)]
    /\ playbackState' = [playbackState EXCEPT !.isPlaying = TRUE]
    /\ UNCHANGED audioRef

pause ==
    /\ audioRef # 0
    /\ audios' = [audios EXCEPT ![audioRef].paused = TRUE]
    /\ playbackState' = [playbackState EXCEPT !.isPlaying = FALSE]
    /\ UNCHANGED audioRef

\* seek(time); with audioRef.current null it does nothing
seek(time) ==
    IF audioRef # 0
    THEN /\ audios' = [audios EXCEPT ![audioRef] = ElementSeek(@, time)]
         /\ playbackState' = [playbackState EXCEPT !.currentTime = time]
         /\ UNCHANGED audioRef
    ELSE UNCHANGED playVars

\* Element a plays on for a second and fires 'timeupdate'; updateCurrentTime
\* copies the position of audioRef.current, whichever element fired.
TimeUpdate(a) ==
    /\ ~audios[a].paused
    /\ RLt(audios[a].currentTime, audios[a].duration)
    /\ audios' = [audios EXCEPT
                    ![a].currentTime = RMin(RAdd(@, Num(1)), audios[a].duration)]
    /\ playbackState' = IF audioRef # 0
                        THEN [playbackState EXCEPT
                                !.currentTime = audios'[audioRef].currentTime]
                        ELSE playbackState
    /\ UNCHANGED audioRef

\* Element a reaches its end: the element pauses itself and fires 'ended'.
Ended(a) ==
    /\ ~audios[a].paused
    /\ audios[a].currentTime = audios[a].duration
    /\ audios' = [audios EXCEPT ![a].paused = TRUE]
    /\ playbackState' = [playbackState EXCEPT !.isPlaying = FALSE,
                                              !.currentTime = Num(0)]
    /\ UNCHANGED audioRef

----------------------------------------------------------------------------
(* ProjectPage: the handlers of the transport. *)

\* handleSeek
handleSeek(time) == seek(time)

\* handleTogglePlayback
handleTogglePlayback == IF playbackState.isPlaying THEN pause ELSE play

\* shortcuts.seekBackward
seekBackwardTime == RMax(Num(0), RSub(playbackState.currentTime, Num(SeekStep)))

seekBackward == handleSeek(seekBackwardTime)

\* shortcuts.seekForward
seekForwardTime ==
    RMin(playbackState.duration, RAdd(playbackState.currentTime, Num(SeekStep)))

seekForward == handleSeek(seekForwardTime)

----------------------------------------------------------------------------
(* The preview under the transport: the note list is an input, drawn from   *)
(* the lists of at most MaxNotes notes over PreviewTimestamps, in any       *)
(* order, malformed timestamps included; the transport then runs.           *)

PreviewTimestamps == {NaN, Num(-1), Num(1), Num(3), Num(4)}

PreviewNoteLists ==
    UNION {{[i \in 1..n |-> MkNote(i, f[i], "c1", "blue", 1)] :
                f \in [1..n -> PreviewTimestamps]} : n \in 0..MaxNotes}

InitTransport ==
    /\ playbackState = [isPlaying |-> FALSE, currentTime |-> Num(0),
                        duration |-> Num(0), volume |-> 1]
    /\ audioRef = 0
    /\ audios = <<>>

InitPage ==
    /\ currentProject = 0
    /\ audioFile = 0
    /\ viewMode = "waveform"
    /\ selectedNote = NoNote
    /\ showNoteModal = FALSE
    /\ noteModalTimestamp = Num(0)

InitNotes ==
    /\ notes = <<>>
    /\ hookSelectedNote = NoNote
    /\ dbNotes = <<>>
    /\ storeCalls = <<>>
    /\ nextId = 1

InitWave ==
    /\ waveformData = [file |-> 0, peaks |-> <<>>]
    /\ isLoading = TRUE
    /\ decodes = <<>>
    /\ lastDecode = [file |-> 0, isCancelled |-> FALSE, mounted |-> FALSE,
                     status |-> "none", prior |-> [file |-> 0, peaks |-> <<>>],
                     buffer |-> <<>>]
    /\ waveMounted = FALSE
    /\ hostError = FALSE

\* DatabaseService before its first operation: no database object, nothing
\* saved, no operation called
InitService ==
    /\ initialized = FALSE
    /\ db = [object |-> 0, rows |-> {}]
    /\ savedData = {}
    /\ requests = <<>>
    /\ operations = [c \in 1..MaxOperations |-> "none"]

InitPreview ==
    /\ InitTransport
    /\ InitPage
    /\ notes \in PreviewNoteLists
    /\ hookSelectedNote = NoNote
    /\ dbNotes = <<>>
    /\ storeCalls = <<>>
    /\ nextId = 1
    /\ InitWave
    /\ emitted = [event |-> "none", x |-> 0, calls |-> <<>>]
    /\ dbProjects = <<>>
    /\ audioFiles = {}
    /\ mnzFiles = {}
    /\ InitService

NextPreview ==
    \/ \E d \in Durations : LoadedMetadata(d)
                            /\ UNCHANGED <<pageVars, noteVars, waveVars, emitted, exportVars>>
    \/ handleTogglePlayback /\ UNCHANGED <<pageVars, noteVars, waveVars, emitted, exportVars>>
    \/ seekBackward /\ audioRef # 0
                    /\ UNCHANGED <<pageVars, noteVars, waveVars, emitted, exportVars>>
    \/ seekForward /\ audioRef # 0
                   /\ UNCHANGED <<pageVars, noteVars, waveVars, emitted, exportVars>>
    \/ \E a \in 1..Len(audios) :
          TimeUpdate(a) /\ UNCHANGED <<pageVars, noteVars, waveVars, emitted, exportVars>>
    \/ \E a \in 1..Len(audios) :
          Ended(a) /\ UNCHANGED <<pageVars, noteVars, waveVars, emitted, exportVars>>

SpecPreview == InitPreview /\ [][NextPreview]_vars

----------------------------------------------------------------------------
(* Claims about NotePreview, under SpecPreview. *)

\* |note.timestamp - currentTime| <= tolerance, written out on the
\* numerators and denominators; false for a NaN timestamp
WithinWindow(note, currentTime) ==
    /\ note.timestamp[2] # 0
    /\ Abs(note.timestamp[1] * currentTime[2] - currentTime[1] * note.timestamp[2])
          <= NoteTolerance * note.timestamp[2] * currentTime[2]

\* note a is strictly closer to currentTime than note b
StrictlyCloser(a, b, currentTime) ==
    /\ a.timestamp[2] # 0
    /\ b.timestamp[2] # 0
    /\ Abs(a.timestamp[1] * currentTime[2] - currentTime[1] * a.timestamp[2])
            * b.timestamp[2]
          < Abs(b.timestamp[1] * currentTime[2] - currentTime[1] * b.timestamp[2])
            * a.timestamp[2]

\* C1: whenever isPlaying is false the active-note sequence is empty and
\* nothing is displayed, whatever the notes and the current time are.
C1_PausedNoActiveNotes ==
    ~playbackState.isPlaying => activeNotes = <<>> /\ Display.state = "Idle"

\* C1 witness: playback was paused or ended away from the start, with a note
\* inside the window around the current time.
C1_Witness ==
    /\ ~playbackState.isPlaying
    /\ audioRef # 0
    /\ playbackState.currentTime = Num(2)
    /\ \E i \in 1..Len(notes) : WithinWindow(notes[i], playbackState.currentTime)

\* C3: while playing, the active notes are exactly the notes with
\* |timestamp - currentTime| <= 2, each once.
C3_ActiveSetIsWindow ==
    playbackState.isPlaying =>
        /\ Range(activeNotes) =
              {n \in Range(notes) : WithinWindow(n, playbackState.currentTime)}
        /\ \A i, j \in 1..Len(activeNotes) :
              activeNotes[i] = activeNotes[j] => i = j

\* C3 witness: playing, one note exactly 2 seconds away (active) and one
\* note further away (not active).
C3_Witness ==
    /\ playbackState.isPlaying
    /\ \E i \in 1..Len(activeNotes) :
          Distance(activeNotes[i], playbackState.currentTime) = Num(NoteTolerance)
    /\ \E i \in 1..Len(notes) :
          /\ ~IsNaN(notes[i].timestamp)
          /\ notes[i] \notin Range(activeNotes)

\* C10: a note with a NaN or negative timestamp is never among the active
\* notes.
C10_MalformedNeverActive ==
    \A i \in 1..Len(activeNotes) :
        /\ ~IsNaN(activeNotes[i].timestamp)
        /\ activeNotes[i].timestamp[1] >= 0

\* C9, the states: the display is Primary exactly when playing with a note
\* inside the window, and the primary note is one no other note is strictly
\* closer than.
C9_States ==
    /\ Display.state = "Primary" <=>
          /\ playbackState.isPlaying
          /\ \E n \in Range(notes) : WithinWindow(n, playbackState.currentTime)
    /\ Display.state = "Primary" =>
          \E n \in Range(notes) :
              /\ n.id = Display.id
              /\ WithinWindow(n, playbackState.currentTime)
              /\ \A m \in Range(notes) :
                    ~StrictlyCloser(m, n, playbackState.currentTime)

\* C9, the transitions: a pause, an 'ended' event or the last note leaving
\* the window leads to Idle, and a note that another note has become
\* strictly closer than is no longer the primary one.
C9_Step ==
    LET next == Render(notes', playbackState'.currentTime, playbackState'.isPlaying)
    IN  /\ (pause \/ \E a \in 1..Len(audios) : Ended(a)) => next.state = "Idle"
        /\ (\A n \in Range(notes') : ~WithinWindow(n, playbackState'.currentTime))
              => next.state = "Idle"
        /\ \A n, m \in Range(notes') :
              /\ Display.state = "Primary"
              /\ Display.id = n.id
              /\ StrictlyCloser(m, n, playbackState'.currentTime)
              => next # Display

\* C9, no terminal state: from Primary the step to Idle (pause) is enabled,
\* and from Idle with an element loaded the step back to playing is.
C9_NotStuck ==
    /\ Display.state = "Primary" => ENABLED (pause /\ UNCHANGED audioRef)
    /\ (Display.state = "Idle" /\ audioRef # 0) => ENABLED handleTogglePlayback

\* C9: the note display follows the Idle/Primary state machine.
C9_StateMachine == []C9_States /\ [][C9_Step]_vars /\ []C9_NotStuck

\* C9 witness: Primary on a note that is not the first of the list, with
\* another note in the window further away.
C9_Witness ==
    /\ Display.state = "Primary"
    /\ Len(notes) >= 2
    /\ Display.id # notes[1].id
    /\ WithinWindow(notes[1], playbackState.currentTime)
    /\ StrictlyCloser(primaryNote, notes[1], playbackState.currentTime)

----------------------------------------------------------------------------
(* DatabaseService: table notes.  A row is a Note; dbNotes holds the rows   *)
(* in rowid order.  Every operation awaits initialize() and then runs its   *)
(* SQL synchronously, so the table changes in the step that makes the call; *)
(* the promise settles later, after saveDatabase().                         *)

Undefined == "undefined"

\* { ...note, ...updates }: a field of updates that is present overrides
ApplyUpdates(note, updates) ==
    [note EXCEPT
        !.content = IF updates.content = Undefined THEN @ ELSE updates.content,
        !.color = IF updates.color = Undefined THEN @ ELSE updates.color,
        !.timestamp = IF updates.timestamp = Undefined THEN @ ELSE updates.timestamp]

\* One step of a stable sort with the comparator a.timestamp - b.timestamp.
RECURSIVE InsertByTimestamp(_, _)
InsertByTimestamp(sorted, note) ==
    IF sorted = <<>> THEN <<note>>
    ELSE IF RLt(note.timestamp, sorted[Len(sorted)].timestamp)
         THEN Append(InsertByTimestamp(SubSeq(sorted, 1, Len(sorted) - 1), note),
                     sorted[Len(sorted)])
         ELSE Append(sorted, note)

\* [...s].sort((a, b) => a.timestamp - b.timestamp)
RECURSIVE SortByTimestamp(_)
SortByTimestamp(s) ==
    IF s = <<>> THEN <<>>
    ELSE InsertByTimestamp(SortByTimestamp(SubSeq(s, 1, Len(s) - 1)), s[Len(s)])

\* INSERT INTO notes ...: the table after createNote
DbCreateNote(rows, note) == Append(rows, note)

\* SELECT * FROM notes WHERE project_id = ? ORDER BY timestamp ASC; rows of
\* equal timestamp come in rowid order
DbNotesByProject(rows, projectId) ==
    SortByTimestamp(SelectSeq(rows, LAMBDA r : r.projectId = projectId))

\* UPDATE notes SET ... WHERE id = ?; with no field to set the table is
\* left alone
DbUpdateNote(rows, id, updates) ==
    [i \in 1..Len(rows) |->
        IF rows[i].id = id THEN ApplyUpdates(rows[i], updates) ELSE rows[i]]

\* DELETE FROM notes WHERE id = ?
DbDeleteNote(rows, id) == SelectSeq(rows, LAMBDA r : r.id # id)

----------------------------------------------------------------------------
(* useNoteManager.  A call of loadNotes, addNote, updateNote or deleteNote  *)
(* is two steps: the call (the store runs its SQL, or fails) and, later,    *)
(* the settling of the awaited promise (the setState calls, or the catch).  *)
(* A store call in flight is                                                 *)
(*   [op, ok, projectId, note, id, updates, rows, selectedId]               *)
(* where selectedId is selectedNote?.id of the closure that made the call.  *)

NoUpdates == [content |-> Undefined, color |-> Undefined, timestamp |-> Undefined]

StoreCall(op, ok, projectId, note, id, updates, rows) ==
    [op |-> op, ok |-> ok, projectId |-> projectId, note |-> note, id |-> id,
     updates |-> updates, rows |-> rows, selectedId |-> hookSelectedNote.id]

\* loadNotes of the hook rendered with projectId, up to the await, with
\* fewer than limit store calls in flight
loadNotes_CallWithin(limit, projectId, ok) ==
    /\ projectId # 0
    /\ Len(storeCalls) < limit
    /\ storeCalls' = Append(storeCalls,
          StoreCall("loadNotes", ok, projectId, NoNote, 0, NoUpdates,
                    IF ok THEN DbNotesByProject(dbNotes, projectId) ELSE <<>>))
    /\ UNCHANGED <<notes, hookSelectedNote, dbNotes, nextId>>

loadNotes_Call(projectId, ok) == loadNotes_CallWithin(MaxCalls, projectId, ok)

\* addNote(timestamp, content, color), up to the await
addNote_Call(timestamp, content, color, ok) ==
    /\ currentProject # 0
    /\ Len(storeCalls) < MaxCalls
    /\ nextId <= MaxCreated
    /\ LET newNote == MkNote(nextId, timestamp, content, color, currentProject)
       IN  /\ storeCalls' = Append(storeCalls,
                 StoreCall("addNote", ok, currentProject, newNote, newNote.id,
                           NoUpdates, <<>>))
           /\ dbNotes' = IF ok THEN DbCreateNote(dbNotes, newNote) ELSE dbNotes
           /\ nextId' = IF ok THEN nextId + 1 ELSE nextId
    /\ UNCHANGED <<notes, hookSelectedNote>>

\* updateNote(id, updates), up to the await
updateNote_Call(id, updates, ok) ==
    /\ Len(storeCalls) < MaxCalls
    /\ storeCalls' = Append(storeCalls,
          StoreCall("updateNote", ok, 0, NoNote, id, updates, <<>>))
    /\ dbNotes' = IF ok THEN DbUpdateNote(dbNotes, id, updates) ELSE dbNotes
    /\ UNCHANGED <<notes, hookSelectedNote, nextId>>

\* deleteNote(id), up to the await
deleteNote_Call(id, ok) ==
    /\ Len(storeCalls) < MaxCalls
    /\ storeCalls' = Append(storeCalls,
          StoreCall("deleteNote", ok, 0, NoNote, id, NoUpdates, <<>>))
    /\ dbNotes' = IF ok THEN DbDeleteNote(dbNotes, id) ELSE dbNotes
    /\ UNCHANGED <<notes, hookSelectedNote, nextId>>

RemoveAt(s, i) == SubSeq(s, 1, i - 1) \o SubSeq(s, i + 1, Len(s))

\* setNotes(prev => [...prev, newNote].sort(...)) of addNote
NotesAfterAdd(prev, newNote) == SortByTimestamp(Append(prev, newNote))

\* setNotes(prev => prev.map(...)) of updateNote
NotesAfterUpdate(prev, id, updates) ==
    [i \in 1..Len(prev) |->
        IF prev[i].id = id THEN ApplyUpdates(prev[i], updates) ELSE prev[i]]

\* setNotes(prev => prev.filter(note => note.id !== id)) of deleteNote
NotesAfterDelete(prev, id) == SelectSeq(prev, LAMBDA n : n.id # id)

\* The mutant of Settle: the setState calls are made whether or not the
\* store call failed.
Settle_IgnoresFailure(i) ==
    LET c == storeCalls[i] IN
    /\ storeCalls' = RemoveAt(storeCalls, i)
    /\ CASE c.op = "loadNotes" ->
                /\ notes' = c.rows
                /\ UNCHANGED hookSelectedNote
          [] c.op = "addNote" ->
                /\ notes' = NotesAfterAdd(notes, c.note)
                /\ hookSelectedNote' = c.note
          [] c.op = "updateNote" ->
                /\ notes' = NotesAfterUpdate(notes, c.id, c.updates)
                /\ hookSelectedNote' =
                      IF c.selectedId = c.id /\ hookSelectedNote # NoNote
                      THEN ApplyUpdates(hookSelectedNote, c.updates)
                      ELSE hookSelectedNote
          [] c.op = "deleteNote" ->
                /\ notes' = NotesAfterDelete(notes, c.id)
                /\ hookSelectedNote' =
                      IF c.selectedId = c.id THEN NoNote ELSE hookSelectedNote
    /\ UNCHANGED <<dbNotes, nextId>>

\* The awaited promise of store call i settles: the rest of the try block,
\* or the catch block, which only logs.
Settle(i) ==
    LET c == storeCalls[i] IN
    /\ storeCalls' = RemoveAt(storeCalls, i)
    /\ IF ~c.ok
       THEN UNCHANGED <<notes, hookSelectedNote>>
       ELSE CASE c.op = "loadNotes" ->
                    /\ notes' = c.rows
                    /\ UNCHANGED hookSelectedNote
              [] c.op = "addNote" ->
                    /\ notes' = NotesAfterAdd(notes, c.note)
                    /\ hookSelectedNote' = c.note
              [] c.op = "updateNote" ->
                    /\ notes' = NotesAfterUpdate(notes, c.id, c.updates)
                    /\ hookSelectedNote' =
                          IF c.selectedId = c.id /\ hookSelectedNote # NoNote
                          THEN ApplyUpdates(hookSelectedNote, c.updates)
                          ELSE hookSelectedNote
              [] c.op = "deleteNote" ->
                    /\ notes' = NotesAfterDelete(notes, c.id)
                    /\ hookSelectedNote' =
                          IF c.selectedId = c.id THEN NoNote ELSE hookSelectedNote
    /\ UNCHANGED <<dbNotes, nextId>>

----------------------------------------------------------------------------
(* utils/audio.ts.  Channel data is a sequence of integers (samples on an   *)
(* integer scale); a peak series is a sequence of numbers.                   *)

SetMax(S) == CHOOSE m \in S : \A k \in S : k <= m

\* The mutant of BlockPeak: the largest sample of the block, signed, from
\* a running maximum that starts below every sample.
BlockPeak_Signed(channelData, start, end) ==
    SetMax({-3} \cup {channelData[j + 1] : j \in start..(end - 1)})

\* The mutant of BlockPeak: the loop runs to j <= end, as far as the
\* channel has samples.
BlockPeak_Inclusive(channelData, start, end) ==
    SetMax({0} \cup {Abs(channelData[j + 1]) :
                        j \in {k \in start..end : k < Len(channelData)}})

\* the inner loop of generateWaveformData over [start, end): the largest
\* |channelData[j]|, 0 for an empty block (indices are 0-based in the code)
BlockPeak(channelData, start, end) ==
    SetMax({0} \cup {Abs(channelData[j + 1]) : j \in start..(end - 1)})

generateWaveformData(channelData) ==
    LET blockSize == Len(channelData) \div SampleCount
    IN  [i \in 1..SampleCount |->
            Num(BlockPeak(channelData, (i - 1) * blockSize, (i - 1) * blockSize + blockSize))]

RECURSIVE SeqMax(_)
\* Math.max(...peaks)
SeqMax(peaks) ==
    IF Len(peaks) = 1 THEN peaks[1]
    ELSE RMax(peaks[1], SeqMax(SubSeq(peaks, 2, Len(peaks))))

\* The mutants of normalizeWaveform: no test for a maximum of 0, and no
\* division at all.
normalizeWaveform_NoZeroTest(peaks) ==
    [i \in 1..Len(peaks) |-> RDiv(peaks[i], SeqMax(peaks))]

normalizeWaveform_Identity(peaks) == peaks

normalizeWaveform(peaks) ==
    LET max == SeqMax(peaks)
    IN  IF max = Num(0) THEN peaks
        ELSE [i \in 1..Len(peaks) |-> RDiv(peaks[i], max)]

----------------------------------------------------------------------------
(* WaveformView: the generateWaveform effect.  A run of the effect is        *)
(*   [file, isCancelled, mounted, status, prior, buffer]                     *)
(* file: the audioFile it decodes; isCancelled: the flag of its closure;     *)
(* prior: the waveformData of the instance when the run started;             *)
(* buffer: the channel data decodeAudioFile resolved to, <<>> before;        *)
(* mounted: the instance that started it is still mounted (a setState of an  *)
(* unmounted instance changes nothing); status: "pending" while              *)
(* decodeAudioFile is awaited, then "applied", "discarded" or "failed".      *)
(* waveformData is [file, peaks], file naming the audioFile the peaks were   *)
(* computed from.                                                            *)

NoWave == [file |-> 0, peaks |-> <<>>]
NoRun ==
    [file |-> 0, isCancelled |-> FALSE, mounted |-> FALSE, status |-> "none",
     prior |-> NoWave, buffer |-> <<>>]

\* what decodeAudioFile may resolve to
DecodedBuffers == {<<0, 0, 0, 0>>, <<1, -4, 2, 0, -2, 3, 1, 1, 9>>}

\* the effect's cleanup: isCancelled = true
CancelRuns(runs) == [i \in 1..Len(runs) |-> [runs[i] EXCEPT !.isCancelled = TRUE]]

\* the effect runs for audioFile file: the previous run's cleanup, then
\* generateWaveform() up to the await
StartRun(runs, file, prior) ==
    Append(CancelRuns(runs),
           [file |-> file, isCancelled |-> FALSE, mounted |-> TRUE,
            status |-> "pending", prior |-> prior, buffer |-> <<>>])

\* A WaveformView instance mounts with audioFile file: fresh state, and the
\* effect runs.
WaveMount(file) ==
    /\ Len(decodes) < MaxDecodes
    /\ waveMounted' = TRUE
    /\ waveformData' = NoWave
    /\ isLoading' = TRUE
    /\ decodes' = StartRun(decodes, file, NoWave)
    /\ UNCHANGED <<lastDecode, hostError>>

\* The mounted instance is given another audioFile: the effect runs again,
\* setIsLoading(true).
WaveAudioFileChange(file) ==
    /\ Len(decodes) < MaxDecodes
    /\ isLoading' = TRUE
    /\ decodes' = StartRun(decodes, file, waveformData)
    /\ UNCHANGED <<waveformData, waveMounted, lastDecode, hostError>>

\* The instance unmounts: the effect's cleanup; its state is gone.
WaveUnmount ==
    /\ waveMounted' = FALSE
    /\ waveformData' = NoWave
    /\ isLoading' = TRUE
    /\ decodes' = [i \in 1..Len(decodes) |->
                      [decodes[i] EXCEPT !.isCancelled = TRUE, !.mounted = FALSE]]
    /\ UNCHANGED <<lastDecode, hostError>>

\* The mutant of DecodeResolve: no isCancelled test after the await.
DecodeResolve_NoCancelTest(i, buffer) ==
    /\ decodes' = RemoveAt(decodes, i)
    /\ lastDecode' = [decodes[i] EXCEPT !.status = "applied", !.buffer = buffer]
    /\ waveformData' =
          IF decodes[i].mounted
          THEN [file |-> decodes[i].file,
                peaks |-> normalizeWaveform(generateWaveformData(buffer))]
          ELSE waveformData
    /\ isLoading' = IF decodes[i].mounted THEN FALSE ELSE isLoading
    /\ UNCHANGED <<waveMounted, hostError>>

\* The mutant of DecodeResolve: the setIsLoading(false) of the finally
\* block takes effect whether or not the instance of the run is mounted.
DecodeResolve_NoMountTest(i, buffer) ==
    /\ decodes' = RemoveAt(decodes, i)
    /\ IF decodes[i].isCancelled
       THEN /\ lastDecode' = [decodes[i] EXCEPT !.status = "discarded", !.buffer = buffer]
            /\ UNCHANGED waveformData
       ELSE /\ lastDecode' = [decodes[i] EXCEPT !.status = "applied", !.buffer = buffer]
            /\ waveformData' =
                  [file |-> decodes[i].file,
                   peaks |-> normalizeWaveform(generateWaveformData(buffer))]
    /\ isLoading' = FALSE
    /\ UNCHANGED <<waveMounted, hostError>>

\* decodeAudioFile of run i resolves with buffer: the rest of the try block
\* and the finally block.
DecodeResolve(i, buffer) ==
    /\ decodes' = RemoveAt(decodes, i)
    /\ IF decodes[i].isCancelled
       THEN /\ lastDecode' = [decodes[i] EXCEPT !.status = "discarded", !.buffer = buffer]
            /\ UNCHANGED waveformData
       ELSE /\ lastDecode' = [decodes[i] EXCEPT !.status = "applied", !.buffer = buffer]
            /\ waveformData' =
                  [file |-> decodes[i].file,
                   peaks |-> normalizeWaveform(generateWaveformData(buffer))]
    /\ isLoading' = IF decodes[i].mounted THEN FALSE ELSE isLoading
    /\ UNCHANGED <<waveMounted, hostError>>

\* The mutant of DecodeReject: the waveform is cleared on a failure.
DecodeReject_Clears(i) ==
    /\ decodes' = RemoveAt(decodes, i)
    /\ lastDecode' = [decodes[i] EXCEPT !.status = "failed"]
    /\ waveformData' = IF decodes[i].mounted THEN NoWave ELSE waveformData
    /\ isLoading' = IF decodes[i].mounted THEN FALSE ELSE isLoading
    /\ UNCHANGED <<waveMounted, hostError>>

\* decodeAudioFile of run i rejects: the catch block logs, then the finally
\* block.
DecodeReject(i) ==
    /\ decodes' = RemoveAt(decodes, i)
    /\ lastDecode' = [decodes[i] EXCEPT !.status = "failed"]
    /\ isLoading' = IF decodes[i].mounted THEN FALSE ELSE isLoading
    /\ UNCHANGED <<waveformData, waveMounted, hostError>>

----------------------------------------------------------------------------
(* WaveformView: the pointer handlers.  The canvas exists only while the    *)
(* instance is mounted and not loading.  emitted lists the calls the        *)
(* handler made on its props, as [op, time, note].                          *)

ClickXs == {0, 10, ViewportWidth}

CanvasShown == waveMounted /\ ~isLoading

\* percentage * playbackState.duration, percentage = clickX / rect.width
XToTime(clickX, width, duration) == RMul(RDiv(clickX, Num(width)), duration)

\* the same for a pointer on the whole pixel x
TimeAtX(x, width, duration) == XToTime(Num(x), width, duration)

\* noteX = (note.timestamp / playbackState.duration) * rect.width
\* The mutant of NoteX: the position is cut to a whole pixel.
NoteX_WholePixel(note, width, duration) ==
    LET x == RMul(RDiv(note.timestamp, duration), Num(width))
    IN  IF x[2] = 0 THEN x ELSE Num(x[1] \div x[2])

NoteX(note, width, duration) == RMul(RDiv(note.timestamp, duration), Num(width))

\* Math.abs(clickX - noteX) <= tolerance
NearNote(note, x, width, duration) ==
    RLeq(RAbs(RSub(Num(x), NoteX(note, width, duration))), Num(ClickTolerance))

\* The mutant of ClickedNote: a reach of 0 pixels.
ClickedNote_Exact(ns, x, width, duration) ==
    LET hits == {i \in 1..Len(ns) : Num(x) = NoteX(ns[i], width, duration)}
    IN  IF hits = {} THEN NoNote ELSE ns[CHOOSE i \in hits : \A j \in hits : i <= j]

\* notes.find(note => ...): the first note of the list in reach of x, or
\* undefined
ClickedNote(ns, x, width, duration) ==
    LET hits == {i \in 1..Len(ns) : NearNote(ns[i], x, width, duration)}
    IN  IF hits = {} THEN NoNote ELSE ns[CHOOSE i \in hits : \A j \in hits : i <= j]

Call(op, time, note) == [op |-> op, time |-> time, note |-> note]

\* emitted after the handler of pointer event kind at x made calls; any
\* other handler leaves NoEvent
Event(kind, x, calls) == [event |-> kind, x |-> x, calls |-> calls]
NoEvent == Event("none", 0, <<>>)

\* The mutant of handleAddNoteRequest: timestamp || currentTime, so that a
\* timestamp of 0 gives way to the current time.
handleAddNoteRequest_Falsy(timestamp) ==
    /\ noteModalTimestamp' =
          IF timestamp # Undefined /\ ~Falsy(timestamp)
          THEN timestamp ELSE playbackState.currentTime
    /\ showNoteModal' = TRUE
    /\ UNCHANGED <<currentProject, audioFile, viewMode, selectedNote>>

\* ProjectPage.handleAddNoteRequest(timestamp?)
handleAddNoteRequest(timestamp) ==
    /\ noteModalTimestamp' =
          IF timestamp # Undefined THEN timestamp ELSE playbackState.currentTime
    /\ showNoteModal' = TRUE
    /\ UNCHANGED <<currentProject, audioFile, viewMode, selectedNote>>

\* handleCanvasClick with e.clientX - rect.left = x
handleCanvasClick(x) ==
    /\ CanvasShown
    /\ IF Falsy(playbackState.duration)
       THEN /\ emitted' = Event("click", x, <<>>)
            /\ UNCHANGED <<playVars, pageVars>>
       ELSE LET time == TimeAtX(x, ViewportWidth, playbackState.duration)
                clickedNote == ClickedNote(notes, x, ViewportWidth,
                                           playbackState.duration)
            IN  IF clickedNote # NoNote
                THEN /\ selectedNote' = IF selectedNote.id = clickedNote.id
                                        THEN NoNote ELSE clickedNote
                     /\ emitted' = Event("click", x,
                                        <<Call("onSelectNote", NaN, selectedNote')>>)
                     /\ UNCHANGED <<playVars, currentProject, audioFile, viewMode,
                                    showNoteModal, noteModalTimestamp>>
                ELSE /\ handleSeek(time)
                     /\ emitted' = Event("click", x, <<Call("onSeek", time, NoNote)>>)
                     /\ UNCHANGED pageVars
    /\ UNCHANGED <<noteVars, waveVars>>

\* The mutant of handleCanvasDoubleClick: the request is made for the
\* current playback time, not for the time under the pointer.
handleCanvasDoubleClick_AtCurrentTime(x) ==
    /\ CanvasShown
    /\ IF Falsy(playbackState.duration)
       THEN /\ emitted' = Event("doubleClick", x, <<>>)
            /\ UNCHANGED pageVars
       ELSE /\ emitted' = Event("doubleClick", x,
                                 <<Call("onAddNote", playbackState.currentTime, NoNote)>>)
            /\ handleAddNoteRequest(playbackState.currentTime)
    /\ UNCHANGED <<playVars, noteVars, waveVars>>

\* handleCanvasDoubleClick with e.clientX - rect.left = x
handleCanvasDoubleClick(x) ==
    /\ CanvasShown
    /\ IF Falsy(playbackState.duration)
       THEN /\ emitted' = Event("doubleClick", x, <<>>)
            /\ UNCHANGED pageVars
       ELSE LET time == TimeAtX(x, ViewportWidth, playbackState.duration)
            IN  /\ emitted' = Event("doubleClick", x, <<Call("onAddNote", time, NoNote)>>)
                /\ handleAddNoteRequest(time)
    /\ UNCHANGED <<playVars, noteVars, waveVars>>

----------------------------------------------------------------------------
(* ProjectPage, NoteModal and ListView. *)

Projects == {1, 2}
TextInputs == {"c1", " ", " c1 "}
UpdateTimestamps == {Num(0)}

\* String.prototype.trim on the inputs of the model
Trim(text) ==
    IF text = " " THEN ""
    ELSE IF text = " c1 " THEN "c1"
    ELSE IF text = " c2 " THEN "c2"
    ELSE text

ProjectShown == currentProject # 0 /\ audioFile # 0

\* loadProject from "await loadAudio(url)" on: 'loadedmetadata' fires, then
\* setCurrentProject and setAudioFile; the effects that depend on them run:
\* loadNotes() and, in the waveform view, generateWaveform().
ProjectLoadedWithin(limit, p, d, ok) ==
    /\ LoadedMetadata(d)
    /\ currentProject' = p
    /\ audioFile' = audioFile + 1
    /\ loadNotes_CallWithin(limit, p, ok)
    /\ IF viewMode # "waveform" THEN UNCHANGED waveVars
       ELSE IF waveMounted THEN WaveAudioFileChange(audioFile')
       ELSE WaveMount(audioFile')
    /\ UNCHANGED <<viewMode, selectedNote, showNoteModal, noteModalTimestamp>>
    /\ emitted' = NoEvent
    /\ UNCHANGED exportVars

ProjectLoaded(p, d, ok) == ProjectLoadedWithin(MaxCalls, p, d, ok)

\* shortcuts.toggleView / Header onViewModeChange
toggleView ==
    /\ IF viewMode = "waveform"
       THEN /\ viewMode' = "list"
            /\ IF waveMounted THEN WaveUnmount ELSE UNCHANGED waveVars
       ELSE /\ viewMode' = "waveform"
            /\ IF ProjectShown THEN WaveMount(audioFile) ELSE UNCHANGED waveVars
    /\ UNCHANGED <<currentProject, audioFile, selectedNote, showNoteModal,
                   noteModalTimestamp, playVars, noteVars>>
    /\ emitted' = NoEvent
    /\ UNCHANGED exportVars

\* shortcuts.addNote: the 'n' key
addNoteShortcut ==
    /\ handleAddNoteRequest(Undefined)
    /\ UNCHANGED <<playVars, noteVars, waveVars>>
    /\ emitted' = NoEvent
    /\ UNCHANGED exportVars

\* The mutant of NoteModalSave: handleSave without the test of
\* content.trim().
NoteModalSave_NoBlankTest(text, ok) ==
    /\ ProjectShown
    /\ showNoteModal
    /\ addNote_Call(noteModalTimestamp, Trim(text), "blue", ok)
    /\ showNoteModal' = FALSE
    /\ UNCHANGED <<currentProject, audioFile, viewMode, selectedNote,
                   noteModalTimestamp, playVars, waveVars>>
    /\ emitted' = NoEvent
    /\ UNCHANGED exportVars

\* NoteModal.handleSave with the text typed, calling ProjectPage.handleSaveNote
\* up to its await, then onClose
NoteModalSave(text, ok) ==
    /\ ProjectShown
    /\ showNoteModal
    /\ IF Trim(text) # ""
       THEN /\ addNote_Call(noteModalTimestamp, Trim(text), "blue", ok)
            /\ showNoteModal' = FALSE
       ELSE UNCHANGED <<noteVars, showNoteModal>>
    /\ UNCHANGED <<currentProject, audioFile, viewMode, selectedNote,
                   noteModalTimestamp, playVars, waveVars>>
    /\ emitted' = NoEvent
    /\ UNCHANGED exportVars

\* NoteModal onClose: Escape, Cancel
NoteModalClose ==
    /\ ProjectShown
    /\ showNoteModal
    /\ showNoteModal' = FALSE
    /\ UNCHANGED <<currentProject, audioFile, viewMode, selectedNote,
                   noteModalTimestamp, playVars, noteVars, waveVars>>
    /\ emitted' = NoEvent
    /\ UNCHANGED exportVars

\* Store call i settles; after "await addNote(...)" handleSaveNote goes on
\* with setShowNoteModal(false).
SettleCall(i) ==
    /\ Settle(i)
    /\ showNoteModal' = IF storeCalls[i].op = "addNote" THEN FALSE ELSE showNoteModal
    /\ UNCHANGED <<currentProject, audioFile, viewMode, selectedNote,
                   noteModalTimestamp, playVars, waveVars>>
    /\ emitted' = NoEvent
    /\ UNCHANGED exportVars

ListShown == ProjectShown /\ viewMode = "list"

\* const sortedNotes = [...notes].sort(...) of ListView
sortedNotes == SortByTimestamp(notes)

\* ListView: a click on the card of sortedNotes[i]
ListSelect(i) ==
    /\ ListShown
    /\ selectedNote' = IF selectedNote.id = sortedNotes[i].id
                       THEN NoNote ELSE sortedNotes[i]
    /\ UNCHANGED <<currentProject, audioFile, viewMode, showNoteModal,
                   noteModalTimestamp, playVars, noteVars, waveVars>>
    /\ emitted' = NoEvent
    /\ UNCHANGED exportVars

\* ListView: the timestamp and play buttons of sortedNotes[i]
ListSeek(i) ==
    /\ ListShown
    /\ handleSeek(sortedNotes[i].timestamp)
    /\ UNCHANGED <<pageVars, noteVars, waveVars>>
    /\ emitted' = NoEvent
    /\ UNCHANGED exportVars

\* ListView.handleEditSave of sortedNotes[i] with the text typed
ListEditSave(i, text, ok) ==
    /\ ListShown
    /\ IF Trim(text) # ""
       THEN updateNote_Call(sortedNotes[i].id,
                            [NoUpdates EXCEPT !.content = Trim(text)], ok)
       ELSE UNCHANGED noteVars
    /\ UNCHANGED <<pageVars, playVars, waveVars>>
    /\ emitted' = NoEvent
    /\ UNCHANGED exportVars

\* ListView: the delete button of sortedNotes[i], confirmed
ListDelete(i, ok) ==
    /\ ListShown
    /\ deleteNote_Call(sortedNotes[i].id, ok)
    /\ UNCHANGED <<pageVars, playVars, waveVars>>
    /\ emitted' = NoEvent
    /\ UNCHANGED exportVars

\* useNoteManager.updateNote(id, { timestamp }): the hook offers it, no
\* component of the page calls it
UpdateTimestamp(i, timestamp, ok) ==
    /\ updateNote_Call(notes[i].id, [NoUpdates EXCEPT !.timestamp = timestamp], ok)
    /\ UNCHANGED <<pageVars, playVars, waveVars>>
    /\ emitted' = NoEvent
    /\ UNCHANGED exportVars

----------------------------------------------------------------------------
(* The page as a whole. *)

InitExport ==
    /\ dbProjects = <<>>
    /\ audioFiles = {}
    /\ mnzFiles = {}
    /\ InitService

Init ==
    /\ InitTransport
    /\ InitPage
    /\ InitNotes
    /\ InitWave
    /\ emitted = NoEvent
    /\ InitExport

LoadProject == \E p \in Projects, d \in Durations, ok \in BOOLEAN : ProjectLoaded(p, d, ok)

TogglePlayback ==
    /\ handleTogglePlayback
    /\ UNCHANGED <<pageVars, noteVars, waveVars>>
    /\ emitted' = NoEvent
    /\ UNCHANGED exportVars

SeekBackward ==
    /\ audioRef # 0
    /\ seekBackward
    /\ UNCHANGED <<pageVars, noteVars, waveVars>>
    /\ emitted' = NoEvent
    /\ UNCHANGED exportVars

SeekForward ==
    /\ audioRef # 0
    /\ seekForward
    /\ UNCHANGED <<pageVars, noteVars, waveVars>>
    /\ emitted' = NoEvent
    /\ UNCHANGED exportVars

AudioTimeUpdate ==
    \E a \in 1..Len(audios) :
        TimeUpdate(a) /\ UNCHANGED <<pageVars, noteVars, waveVars, exportVars>> /\ emitted' = NoEvent

AudioEnded ==
    \E a \in 1..Len(audios) :
        Ended(a) /\ UNCHANGED <<pageVars, noteVars, waveVars, exportVars>> /\ emitted' = NoEvent

CanvasClick == \E x \in ClickXs : handleCanvasClick(x) /\ UNCHANGED exportVars

CanvasDoubleClick ==
    \E x \in ClickXs : handleCanvasDoubleClick(x) /\ UNCHANGED exportVars

SaveNote == \E text \in TextInputs, ok \in BOOLEAN : NoteModalSave(text, ok)

SettleStoreCall == \E i \in 1..Len(storeCalls) : SettleCall(i)

ListClick == \E i \in 1..Len(notes) : ListSelect(i)

ListSeekTo == \E i \in 1..Len(notes) : ListSeek(i)

ListEdit ==
    \E i \in 1..Len(notes), text \in {"c2", " ", " c2 "}, ok \in BOOLEAN :
        ListEditSave(i, text, ok)

ListRemove == \E i \in 1..Len(notes), ok \in BOOLEAN : ListDelete(i, ok)

MoveNote ==
    \E i \in 1..Len(notes), t \in UpdateTimestamps, ok \in BOOLEAN :
        UpdateTimestamp(i, t, ok)

DecodeDone ==
    \E i \in 1..Len(decodes), buffer \in DecodedBuffers :
        DecodeResolve(i, buffer) /\ UNCHANGED <<playVars, pageVars, noteVars, exportVars>> /\ emitted' = NoEvent

DecodeFailed ==
    \E i \in 1..Len(decodes) :
        DecodeReject(i) /\ UNCHANGED <<playVars, pageVars, noteVars, exportVars>> /\ emitted' = NoEvent

Next ==
    \/ LoadProject
    \/ toggleView
    \/ TogglePlayback
    \/ SeekBackward
    \/ SeekForward
    \/ AudioTimeUpdate
    \/ AudioEnded
    \/ CanvasClick
    \/ CanvasDoubleClick
    \/ addNoteShortcut
    \/ SaveNote
    \/ NoteModalClose
    \/ SettleStoreCall
    \/ ListClick
    \/ ListSeekTo
    \/ ListEdit
    \/ ListRemove
    \/ MoveNote
    \/ DecodeDone
    \/ DecodeFailed

Spec == Init /\ [][Next]_vars

----------------------------------------------------------------------------------------------------------------------------------------------------
(* The waveform view alone: projects are loaded, the view is toggled and    *)
(* the decodes settle in any order.                                         *)

NextWave ==
    \/ LoadProject
    \/ toggleView
    \/ SettleStoreCall
    \/ DecodeDone
    \/ DecodeFailed

SpecWave == Init /\ [][NextWave]_vars

----------------------------------------------------------------------------
(* A page that loads the project of its route once, with a store whose      *)
(* calls succeed.                                                            *)

OpenProject == \E d \in Durations : audioRef = 0 /\ ProjectLoaded(1, d, TRUE)

SaveNoteOk == \E text \in TextInputs : NoteModalSave(text, TRUE)

MoveNoteOk ==
    \E i \in 1..Len(notes), t \in UpdateTimestamps : UpdateTimestamp(i, t, TRUE)

ListRemoveOk == \E i \in 1..Len(notes) : ListDelete(i, TRUE)

\* The pointer on the waveform: the project is decoded, notes are added by
\* double-click and moved, the pointer clicks.
NextClick ==
    \/ OpenProject
    \/ DecodeDone
    \/ TogglePlayback
    \/ CanvasClick
    \/ CanvasDoubleClick
    \/ SaveNoteOk
    \/ NoteModalClose
    \/ SettleStoreCall
    \/ MoveNoteOk

SpecClick == Init /\ [][NextClick]_vars

\* The note list under playback: notes are added at the playback position,
\* moved and deleted while the transport runs.
NextNotes ==
    \/ OpenProject
    \/ toggleView
    \/ TogglePlayback
    \/ AudioTimeUpdate
    \/ AudioEnded
    \/ addNoteShortcut
    \/ SaveNoteOk
    \/ SettleStoreCall
    \/ ListRemoveOk
    \/ MoveNoteOk

SpecNotes == Init /\ [][NextNotes]_vars

----------------------------------------------------------------------------
(* Claims on the decodes of the waveform view, checked under SpecWave. *)

\* run i leaves its await in this step, ending with status
RunSettles(i, status) ==
    /\ decodes' = RemoveAt(decodes, i)
    /\ lastDecode' = [decodes[i] EXCEPT !.status = status,
                                        !.buffer = lastDecode'.buffer]

\* C4: when the audioFile of the view has changed while a decode of the
\* previous file is in flight, that decode never writes waveformData,
\* whichever decode completes first: the step in which a run for another
\* file than the current audioFile completes leaves waveformData as it was,
\* and every value written to waveformData is computed from the current
\* audioFile.
C4_StaleDecodeNeverWritten ==
    [][/\ \A i \in 1..Len(decodes) :
            (/\ decodes[i].file # audioFile
             /\ \/ RunSettles(i, "applied")
                \/ RunSettles(i, "discarded"))
            => waveformData' = waveformData
       /\ waveformData' # waveformData
            => waveformData' = NoWave \/ waveformData'.file = audioFile'
      ]_vars

\* C4 witness: the decode of the current file was written first, the decode
\* of the previous file completed after it, in the same instance, and was
\* discarded.
C4_Witness ==
    /\ lastDecode.status = "discarded"
    /\ lastDecode.mounted
    /\ lastDecode.file # audioFile
    /\ waveformData # NoWave
    /\ waveformData.file = audioFile

\* C5: when a decode fails, no peak series is stored: the failing step
\* leaves waveformData as it was, which for the run in effect is the value
\* waveformData had when the run started (the previous file's peaks or the
\* empty state), and nothing reaches the host.
C5_FailureKeepsWaveform ==
    [][\A i \in 1..Len(decodes) :
          RunSettles(i, "failed")
          => /\ waveformData' = waveformData
             /\ hostError' = hostError
             /\ ~hostError'
             /\ ~decodes[i].isCancelled => waveformData' = decodes[i].prior
      ]_vars

\* C5 witness: the decode in effect has failed and the peaks of the
\* previous file are still the waveform data.
C5_Witness ==
    /\ lastDecode.status = "failed"
    /\ ~lastDecode.isCancelled
    /\ waveformData # NoWave
    /\ waveformData.file # lastDecode.file

----------------------------------------------------------------------------
(* Claims on the pointer handlers, checked under SpecClick. *)

\* the notes of the list within ClickTolerance pixels of x
InReach(x) ==
    {i \in 1..Len(notes) :
        NearNote(notes[i], x, ViewportWidth, playbackState.duration)}

\* what C6 asks of the step of a click at x
SelectsOrSeeks(x) ==
    IF InReach(x) # {}
    THEN /\ \E i \in InReach(x) :
               selectedNote' = IF selectedNote.id = notes[i].id
                               THEN NoNote ELSE notes[i]
         /\ \A k \in 1..Len(emitted'.calls) : emitted'.calls[k].op # "onSeek"
         /\ playbackState' = playbackState
         /\ audios' = audios
    ELSE /\ emitted'.calls =
               <<Call("onSeek", TimeAtX(x, ViewportWidth, playbackState.duration),
                      NoNote)>>
         /\ playbackState'.currentTime =
               TimeAtX(x, ViewportWidth, playbackState.duration)
         /\ selectedNote' = selectedNote

\* C6: with duration > 0, a click within 10 pixels of a note toggles the
\* selection of a note in reach (by id: selected if it was not the selected
\* note, deselected if it was) and issues no seek; a click within 10 pixels
\* of no note issues exactly one seek, to the mapped time, and leaves the
\* selection as it was.
C6_ClickSelectsOrSeeks ==
    [][(emitted'.event = "click" /\ RLt(Num(0), playbackState.duration))
       => SelectsOrSeeks(emitted'.x)]_vars

\* C6 witness: a click has deselected the selected note, which is still in
\* the list.
C6_Witness ==
    /\ emitted.event = "click"
    /\ emitted.calls = <<Call("onSelectNote", NaN, NoNote)>>
    /\ InReach(emitted.x) # {}

\* what C7 asks of the step of a double-click at x
OneRequestAt(x) ==
    LET time == TimeAtX(x, ViewportWidth, playbackState.duration)
    IN  /\ emitted'.calls = <<Call("onAddNote", time, NoNote)>>
        /\ showNoteModal'
        /\ noteModalTimestamp' = time
        /\ selectedNote' = selectedNote
        /\ playbackState' = playbackState
        /\ audios' = audios

\* C7 as stated: a double-click at pixel x emits exactly one note-creation
\* request with timestamp (x / viewportWidth) * duration, near a note or
\* not, and changes neither the selection nor the playback position.
C7_DoubleClickRequestsNote ==
    [][emitted'.event = "doubleClick" => OneRequestAt(emitted'.x)]_vars

\* C7 amended: with a duration other than 0 a double-click at pixel x emits
\* exactly one note-creation request with timestamp
\* (x / viewportWidth) * duration, near a note or not, and changes neither
\* the selection nor the playback position; with duration 0 it emits no
\* request and changes nothing else.
C7_DoubleClickRequestsNoteIfDuration ==
    [][emitted'.event = "doubleClick"
       => IF Falsy(playbackState.duration)
          THEN emitted'.calls = <<>> /\ UNCHANGED <<pageVars, playVars>>
          ELSE OneRequestAt(emitted'.x)]_vars

\* C7 witness: a double-click has requested a note within 10 pixels of an
\* existing note.
C7_Witness ==
    /\ emitted.event = "doubleClick"
    /\ Len(emitted.calls) = 1
    /\ showNoteModal
    /\ InReach(emitted.x) # {}

\* C8: the note hit by a click is the one of lowest timestamp among the
\* notes within 10 pixels of it, whatever note operations led to the list,
\* and no note when none is within 10 pixels.
C8_HitIsLowestTimestamp ==
    (CanvasShown /\ RLt(Num(0), playbackState.duration))
    => \A x \in ClickXs :
          LET hit == ClickedNote(notes, x, ViewportWidth, playbackState.duration)
          IN  IF InReach(x) = {} THEN hit = NoNote
              ELSE /\ hit # NoNote
                   /\ \A i \in InReach(x) : RLeq(hit.timestamp, notes[i].timestamp)

----------------------------------------------------------------------------
(* Claims on the note list under playback, checked under SpecNotes. *)

\* C2: while playing, the active notes are in order of non-decreasing
\* distance from currentTime, notes at equal distance with the lower
\* timestamp first, whatever loadNotes, addNote, updateNote and deleteNote
\* calls led to the note list.
C2_ActiveNotesOrdered ==
    playbackState.isPlaying
    => \A i, j \in 1..Len(activeNotes) :
          i < j =>
             LET di == Distance(activeNotes[i], playbackState.currentTime)
                 dj == Distance(activeNotes[j], playbackState.currentTime)
             IN  /\ RLeq(di, dj)
                 /\ di = dj => RLeq(activeNotes[i].timestamp, activeNotes[j].timestamp)

----------------------------------------------------------------------------
(* WaveformView: the draw effect.  It runs when waveformData is set and the *)
(* canvas is rendered, with width = rect.width of the container.            *)

DrawRuns == CanvasShown /\ waveformData # NoWave

\* progressX = (playbackState.currentTime / playbackState.duration) * width
ProgressX(currentTime, duration, width) ==
    RMul(RDiv(currentTime, duration), Num(width))

progressX ==
    ProgressX(playbackState.currentTime, playbackState.duration, ViewportWidth)

\* C11: with duration 0 every time-to-x mapping of the waveform view that is
\* evaluated (the progress position, the position of each note marker) is
\* 0, never NaN or an infinity.
C11_MappingsZeroAtDurationZero ==
    (DrawRuns /\ playbackState.duration = Num(0))
    => /\ progressX = Num(0)
       /\ \A i \in 1..Len(notes) :
             NoteX(notes[i], ViewportWidth, playbackState.duration) = Num(0)

----------------------------------------------------------------------------
(* AudioPlayer: the progress bar, rendered with the project; its width is   *)
(* taken to be that of the waveform container.                              *)

\* newTime = (clickX / rect.width) * duration
ProgressClickTime(x) == TimeAtX(x, ViewportWidth, playbackState.duration)

\* handleProgressClick with e.clientX - rect.left = x
handleProgressClick(x) == handleSeek(ProgressClickTime(x))

ProgressClick ==
    \E x \in ClickXs :
        /\ ProjectShown
        /\ handleProgressClick(x)
        /\ UNCHANGED <<pageVars, noteVars, waveVars>>
        /\ emitted' = NoEvent
        /\ UNCHANGED exportVars

----------------------------------------------------------------------------
(* The call sites of seek.  The route changes from one project to the       *)
(* other; the audio of a project has one duration.  Notes are added at the  *)
(* playback position and every control that seeks is used, except the       *)
(* waveform click, which SpecClick covers.                                  *)

ProjectDuration(p) == IF p = 1 THEN 6 ELSE 0

SwitchProject ==
    \E p \in Projects :
        p # currentProject /\ ProjectLoaded(p, ProjectDuration(p), TRUE)

NextSeek ==
    \/ SwitchProject
    \/ toggleView
    \/ SeekBackward
    \/ SeekForward
    \/ ProgressClick
    \/ ListSeekTo
    \/ addNoteShortcut
    \/ SaveNoteOk
    \/ SettleStoreCall

SpecSeek == Init /\ [][NextSeek]_vars

WithinDuration(t) == RLeq(Num(0), t) /\ RLeq(t, playbackState.duration)

\* C12: every seek request a call site can issue carries a time t with
\* 0 <= t <= duration: the arrow shortcuts, a click on the progress bar and
\* the timestamp buttons of the list view, in every state reached.
C12_SeekRequestsWithinDuration ==
    /\ WithinDuration(seekBackwardTime)
    /\ WithinDuration(seekForwardTime)
    /\ ProjectShown => \A x \in ClickXs : WithinDuration(ProgressClickTime(x))
    /\ ListShown => \A i \in 1..Len(sortedNotes) :
                        WithinDuration(sortedNotes[i].timestamp)

----------------------------------------------------------------------------
(* Claims on the torn-down waveform view, checked under SpecWave. *)

----------------------------------------------------------------------------
(* NotePreview: what is rendered.  NotePreview.tsx declares the component   *)
(* twice, as a card and as floating cards; which declaration the build      *)
(* keeps is not determined by the source, so a claim on the display is      *)
(* checked for both.                                                        *)

PreviewVariants == {"card", "floating"}

\* the notes whose content is rendered: {primaryNote.content} in the card,
\* {note.content} of activeNotes.map in the floating cards
RenderedNotes(variant, active) ==
    IF active = <<>> THEN <<>>
    ELSE IF variant = "card" THEN <<active[1]>> ELSE active

\* the count N of "+N more", 0 when the indicator is not rendered
MoreIndicator(variant, active) ==
    IF Len(active) > 1 THEN Len(active) - 1 ELSE 0

\* C14: when more than one note is active the display renders the content
\* of the primary note only, with the indicator "+N more" for
\* N = len(activeNotes) - 1; with exactly one active note there is no
\* indicator.
C14_OnlyPrimaryContentShown ==
    \A variant \in PreviewVariants :
        /\ Len(activeNotes) >= 1
              => RenderedNotes(variant, activeNotes) = <<activeNotes[1]>>
        /\ Len(activeNotes) > 1
              => MoreIndicator(variant, activeNotes) = Len(activeNotes) - 1
        /\ Len(activeNotes) = 1 => MoreIndicator(variant, activeNotes) = 0

----------------------------------------------------------------------------
(* The peak series of a decoded buffer: the project is opened and its       *)
(* decode resolves to any channel data of at most MaxSamples samples.       *)

SampleValues == {-2, 0, 1}

SampleBuffers == UNION {[1..n -> SampleValues] : n \in 1..MaxSamples}

DecodeSamples ==
    \E i \in 1..Len(decodes), buffer \in SampleBuffers :
        /\ DecodeResolve(i, buffer)
        /\ UNCHANGED <<playVars, pageVars, noteVars>>
        /\ emitted' = NoEvent
        /\ UNCHANGED exportVars

NextAudio ==
    \/ OpenProject
    \/ SettleStoreCall
    \/ DecodeSamples

SpecAudio == Init /\ [][NextAudio]_vars

\* the run in effect has stored the peaks of lastDecode.buffer
PeaksStored == lastDecode.status = "applied" /\ waveformData.file = lastDecode.file

AllZero(s) == \A i \in 1..Len(s) : s[i] = Num(0)

\* the samples within the SampleCount blocks of floor(len / SampleCount)
\* samples each
SamplesInBlocks(channelData) ==
    SubSeq(channelData, 1, SampleCount * (Len(channelData) \div SampleCount))

\* C15 as stated: the stored peak series has maximum exactly 1 unless every
\* sample of the channel is zero, and then it is all zeros.
C15_MaxIsOneUnlessSilent ==
    PeaksStored
    => IF \A j \in 1..Len(lastDecode.buffer) : lastDecode.buffer[j] = 0
       THEN AllZero(waveformData.peaks)
       ELSE SeqMax(waveformData.peaks) = Num(1)

\* C15 amended: the stored peak series has maximum exactly 1 unless every
\* sample within the SampleCount blocks of floor(len / SampleCount) samples
\* is zero, and then it is all zeros; samples after the last block, and all
\* samples of a buffer shorter than SampleCount, do not count.
C15_MaxIsOneUnlessBlocksSilent ==
    PeaksStored
    => LET inBlocks == SamplesInBlocks(lastDecode.buffer)
       IN  /\ waveformData.peaks =
                 normalizeWaveform(generateWaveformData(lastDecode.buffer))
           /\ IF \A j \in 1..Len(inBlocks) : inBlocks[j] = 0
              THEN AllZero(waveformData.peaks)
              ELSE SeqMax(waveformData.peaks) = Num(1)

\* C15 witness: a stored series with maximum 1 and a lower peak above 0.
C15_Witness ==
    /\ PeaksStored
    /\ SeqMax(waveformData.peaks) = Num(1)
    /\ \E i \in 1..Len(waveformData.peaks) : waveformData.peaks[i] = Rat(1, 2)

\* C16: normalizeWaveform(peaks): with max(peaks) > 0 every output value is
\* the input value divided by max(peaks), the output maximum is 1 and every
\* value lies in [0, 1]; with max(peaks) = 0 the output is the input and no
\* value is NaN or infinite.
C16_NormalizeDividesByMax ==
    lastDecode.status = "applied"
    => LET peaks == generateWaveformData(lastDecode.buffer)
           out == normalizeWaveform(peaks)
           max == SeqMax(peaks)
       IN  IF RLt(Num(0), max)
           THEN /\ Len(out) = Len(peaks)
                /\ \A i \in 1..Len(peaks) :
                      /\ out[i] = RDiv(peaks[i], max)
                      /\ RLeq(Num(0), out[i])
                      /\ RLeq(out[i], Num(1))
                /\ SeqMax(out) = Num(1)
           ELSE /\ max = Num(0)
                /\ out = peaks
                /\ \A i \in 1..Len(out) : out[i][2] # 0

\* C16 witness: both cases have been stored: here a series normalised by a
\* maximum of 2.
C16_Witness ==
    /\ PeaksStored
    /\ SeqMax(generateWaveformData(lastDecode.buffer)) = Num(2)
    /\ SeqMax(waveformData.peaks) = Num(1)

\* C17: for every non-empty buffer, also one with fewer samples than
\* SampleCount, generateWaveformData returns exactly SampleCount values,
\* each >= 0, and a block of length 0 has peak 0.
C17_PeakCountAndSign ==
    lastDecode.status = "applied"
    => LET peaks == generateWaveformData(lastDecode.buffer)
       IN  /\ Len(lastDecode.buffer) >= 1
           /\ Len(peaks) = SampleCount
           /\ \A i \in 1..Len(peaks) : RLeq(Num(0), peaks[i])
           /\ Len(lastDecode.buffer) < SampleCount => AllZero(peaks)

\* C17 witness: a buffer shorter than SampleCount, with a sample that is
\* not 0, has been decoded.
C17_Witness ==
    /\ lastDecode.status = "applied"
    /\ Len(lastDecode.buffer) < SampleCount
    /\ \E j \in 1..Len(lastDecode.buffer) : lastDecode.buffer[j] # 0
    /\ AllZero(waveformData.peaks)

----------------------------------------------------------------------------
(* Claims on the mapping between time and x, checked under SpecPreview for  *)
(* the widths of Widths.                                                    *)

Widths == {1, 7, ViewportWidth}

\* a note the round-trip law speaks of: 0 <= timestamp <= duration, with
\* duration > 0
OnTimeline(note) ==
    /\ RLt(Num(0), playbackState.duration)
    /\ RLeq(Num(0), note.timestamp)
    /\ RLeq(note.timestamp, playbackState.duration)

\* C18: for t in [0, D], W > 0 and D > 0, x = (t / D) * W mapped back by
\* time = (x / W) * D is t: the x-position of a note marker maps to the
\* timestamp of the note.
C18_RoundTrip ==
    \A i \in 1..Len(notes), width \in Widths :
        OnTimeline(notes[i])
        => XToTime(NoteX(notes[i], width, playbackState.duration), width,
                   playbackState.duration) = notes[i].timestamp

\* C18 witness: a note on the timeline whose marker is not on a whole
\* pixel at width 7.
C18_Witness ==
    \E i \in 1..Len(notes) :
        /\ OnTimeline(notes[i])
        /\ NoteX(notes[i], 7, playbackState.duration)[2] > 1

----------------------------------------------------------------------------
(* The add-note flow: a note is requested with 'N' or by double-click,      *)
(* playback goes on while the modal is open, the note is saved.             *)

NextAddNote ==
    \/ OpenProject
    \/ DecodeDone
    \/ TogglePlayback
    \/ AudioTimeUpdate
    \/ addNoteShortcut
    \/ CanvasDoubleClick
    \/ SaveNoteOk
    \/ NoteModalClose
    \/ SettleStoreCall

SpecAddNote == Init /\ [][NextAddNote]_vars

\* the step makes an addNote call
AddNoteCalled ==
    /\ Len(storeCalls') = Len(storeCalls) + 1
    /\ storeCalls'[Len(storeCalls')].op = "addNote"

\* the step settles addNote call i
AddNoteSettled(i) ==
    /\ storeCalls[i].op = "addNote"
    /\ storeCalls' = RemoveAt(storeCalls, i)

\* C19: a note created through the add-note flow is stored with the
\* timestamp captured by the request: a double-click captures the mapped
\* time, also a mapped time of 0; 'N' captures the current playback time;
\* the captured time changes with no other step, so not while playback
\* advances; the row created and the note added to the list carry it.
C19_NoteStoredAtRequestedTime ==
    [][/\ (emitted'.event = "doubleClick" /\ emitted'.calls # <<>>)
            => noteModalTimestamp' =
                  TimeAtX(emitted'.x, ViewportWidth, playbackState.duration)
       /\ noteModalTimestamp' # noteModalTimestamp
            => /\ showNoteModal'
               /\ \/ emitted'.event = "doubleClick"
                  \/ noteModalTimestamp' = playbackState.currentTime
       /\ AddNoteCalled
            => /\ storeCalls'[Len(storeCalls')].note.timestamp = noteModalTimestamp
               /\ dbNotes'[Len(dbNotes')].timestamp = noteModalTimestamp
               /\ dbNotes'[Len(dbNotes')].id = storeCalls'[Len(storeCalls')].note.id
       /\ \A i \in 1..Len(storeCalls) :
             AddNoteSettled(i)
             => \E k \in 1..Len(notes') :
                   /\ notes'[k].id = storeCalls[i].note.id
                   /\ notes'[k].timestamp = storeCalls[i].note.timestamp
      ]_vars

\* C19 witness: a note requested by double-click at time 0 is in the list
\* with timestamp 0 while playback has advanced.
C19_Witness ==
    /\ \E k \in 1..Len(notes) : notes[k].timestamp = Num(0)
    /\ playbackState.isPlaying
    /\ RLt(Num(0), playbackState.currentTime)

----------------------------------------------------------------------------
(* ProjectExportService: exportProject and importProject, over the tables   *)
(* projects and notes and the IndexedDB store audioFiles.  A row of         *)
(* projects is [id, name, fileName, duration, mimeType] (description and    *)
(* the dates are not modelled); a project name is [base, imported], the     *)
(* base name followed by that many " (Imported)".                           *)

MaxProjects == 2        \* rows of table projects
MaxNoteRows == 4        \* rows of table notes
MaxFiles == 1           \* .mnz files handed to the browser

Infinity == <<1, 0>>
\* null, where a number is expected
Null == <<>>

NoProject == [id |-> 0, name |-> [base |-> "", imported |-> 0], fileName |-> "",
              duration |-> Null, mimeType |-> ""]

UploadNames == {"a.mp3"}
UploadTypes == {"audio/mpeg", ""}
UploadBytes == {<<7, 9>>}
\* audio.duration at 'loadedmetadata': a length, or Infinity for a file
\* that does not state its length
UploadDurations == {Num(0), Num(6), Infinity}
\* the timestamp, content and color of the notes created
StoredNotes == {<<Num(0), "c1", Undefined>>, <<Num(0), "c2", "red">>,
                <<Num(3), "c1", "red">>}

MkProject(id, name, fileName, duration, mimeType) ==
    [id |-> id, name |-> name, fileName |-> fileName, duration |-> duration,
     mimeType |-> mimeType]

\* a REAL NOT NULL column refuses null, and NaN, which SQLite stores as NULL
NotNullReal(x) == x # Null /\ ~IsNaN(x)

\* objectStore.put(record): the record replaces the one of the same key
StorePut(store, record) == {r \in store : r.id # record.id} \cup {record}

\* DatabaseService.createProject: the insert, then saveAudioFile.  The
\* result is [ok, projects, audio, project]; a refused insert throws before
\* the audio is saved.
createProject(projects, audio, id, name, fileName, duration, fileData, mimeType) ==
    LET project == MkProject(id, name, fileName, duration, mimeType)
    IN  IF NotNullReal(duration)
        THEN [ok |-> TRUE, projects |-> Append(projects, project),
              audio |-> StorePut(audio, [id |-> id, data |-> fileData,
                                         fileName |-> fileName,
                                         mimeType |-> mimeType]),
              project |-> project]
        ELSE [ok |-> FALSE, projects |-> projects, audio |-> audio,
              project |-> project]

\* DatabaseService.createNote: the result is [ok, rows]
createNote(rows, id, projectId, timestamp, content, color) ==
    IF NotNullReal(timestamp)
    THEN [ok |-> TRUE,
          rows |-> DbCreateNote(rows, MkNote(id, timestamp, content, color, projectId))]
    ELSE [ok |-> FALSE, rows |-> rows]

\* DatabaseService.getProjectWithAudio: the row with the data of its audio
\* record; found is false (the code returns null) when either is missing
getProjectWithAudio(projects, audio, projectId) ==
    LET found == SelectSeq(projects, LAMBDA r : r.id = projectId)
        files == {r \in audio : r.id = projectId}
    IN  IF found = <<>> \/ files = {}
        THEN [found |-> FALSE, project |-> NoProject, fileData |-> <<>>]
        ELSE [found |-> TRUE, project |-> found[1],
              fileData |-> (CHOOSE r \in files : TRUE).data]

\* JSON.stringify of a number: Infinity, -Infinity and NaN are written null
JsonNumber(x) == IF x[2] = 0 THEN Null ELSE x

\* JSON.parse(JSON.stringify(exportData)): what project.json holds of the
\* fields importProject reads
JsonExportData(project, exported) ==
    [project |-> [name |-> project.name, fileName |-> project.fileName,
                  duration |-> JsonNumber(project.duration),
                  mimeType |-> project.mimeType],
     notes |-> [i \in 1..Len(exported) |->
                  [timestamp |-> JsonNumber(exported[i].timestamp),
                   content |-> exported[i].content,
                   color |-> exported[i].color]],
     audioFileName |-> project.fileName]

\* A zip is [json, audio]: the entries "project.json" (none or one) and the
\* entries "audio/<name>"; "README.txt" is written and never read.
\* zip.file(name, data): the entry replaces the one of the same name
ZipFile(entries, name, data) ==
    {z \in entries : z.name # name} \cup {[name |-> name, data |-> data]}

\* zip.file(name): the entries of that name
ZipEntries(entries, name) == {z \in entries : z.name = name}

\* exportProject up to the download: the .mnz file of the project; made is
\* false when the project or its audio is missing (exportProject throws).
\* The name of the download ends in ".mnz".
Mnz(projects, rows, audio, projectId) ==
    LET projectWithAudio == getProjectWithAudio(projects, audio, projectId)
        project == projectWithAudio.project
        exported == DbNotesByProject(rows, projectId)
    IN  [made |-> projectWithAudio.found,
         name |-> project.name,
         extension |-> "mnz",
         zip |-> [json |-> ZipFile({}, "project.json",
                                   JsonExportData(project, exported)),
                  audio |-> ZipFile({}, project.fileName,
                                    projectWithAudio.fileData)]]

\* the loop of importProject from note i on: createNote for each note of the
\* file, stopping at the first that throws.  The result is [ok, rows, id].
RECURSIVE ImportNotes(_, _, _, _, _)
ImportNotes(rows, id, projectId, imported, i) ==
    IF i > Len(imported) THEN [ok |-> TRUE, rows |-> rows, id |-> id]
    ELSE LET created == createNote(rows, id, projectId, imported[i].timestamp,
                                   imported[i].content, imported[i].color)
         IN  IF created.ok
             THEN ImportNotes(created.rows, id + 1, projectId, imported, i + 1)
             ELSE [ok |-> FALSE, rows |-> rows, id |-> id]

\* importProject(file): the result is [ok, projects, rows, audio, id,
\* project]; ok is false when importProject throws, and what was created
\* before the throw stays.  id is the next identifier no row holds.
Imported(file, projects, rows, audio, id) ==
    LET failed == [ok |-> FALSE, projects |-> projects, rows |-> rows,
                   audio |-> audio, id |-> id, project |-> NoProject]
        projectFile == ZipEntries(file.zip.json, "project.json")
    IN  IF file.extension # "mnz" \/ projectFile = {} THEN failed
        ELSE LET exportData == (CHOOSE z \in projectFile : TRUE).data
                 audioEntry == ZipEntries(file.zip.audio, exportData.audioFileName)
             IN  IF exportData.audioFileName = "" \/ audioEntry = {} THEN failed
                 ELSE LET newProject ==
                              createProject(projects, audio, id,
                                  [exportData.project.name EXCEPT !.imported = @ + 1],
                                  exportData.project.fileName,
                                  exportData.project.duration,
                                  (CHOOSE z \in audioEntry : TRUE).data,
                                  exportData.project.mimeType)
                          created == ImportNotes(rows, id + 1, id, exportData.notes, 1)
                      IN  IF ~newProject.ok THEN failed
                          ELSE [ok |-> created.ok, projects |-> newProject.projects,
                                rows |-> created.rows, audio |-> newProject.audio,
                                id |-> created.id, project |-> newProject.project]

ProjectIds == {dbProjects[i].id : i \in 1..Len(dbProjects)}

\* handleFileUpload up to createProject, for a file of the given name, type,
\* bytes and duration
handleFileUpload(fileName, type, fileData, duration) ==
    LET created == createProject(dbProjects, audioFiles, nextId,
                                 [base |-> fileName, imported |-> 0],
                                 fileName, duration, fileData, type)
    IN  /\ Len(dbProjects) < MaxProjects
        /\ created.ok
        /\ dbProjects' = created.projects
        /\ audioFiles' = created.audio
        /\ nextId' = nextId + 1
        /\ UNCHANGED <<dbNotes, mnzFiles>>

\* databaseService.createNote on a project of the table
StoreNote(projectId, timestamp, content, color) ==
    LET created == createNote(dbNotes, nextId, projectId, timestamp, content, color)
    IN  /\ Len(dbNotes) < MaxNoteRows
        /\ created.ok
        /\ dbNotes' = created.rows
        /\ nextId' = nextId + 1
        /\ UNCHANGED <<dbProjects, audioFiles, mnzFiles>>

\* exportProject(projectId): the file is handed to the browser
exportProject(projectId) ==
    LET file == Mnz(dbProjects, dbNotes, audioFiles, projectId)
    IN  /\ file.made
        /\ file \notin mnzFiles
        /\ Cardinality(mnzFiles) < MaxFiles
        /\ mnzFiles' = mnzFiles \cup {file}
        /\ UNCHANGED <<dbProjects, audioFiles, dbNotes, nextId>>

\* importProject(file), whole: what it created stays also when it throws
importProject(file) ==
    LET result == Imported(file, dbProjects, dbNotes, audioFiles, nextId)
    IN  /\ Len(dbProjects) < MaxProjects
        /\ Len(dbNotes) + Len((CHOOSE z \in ZipEntries(file.zip.json, "project.json") : TRUE).data.notes)
              <= MaxNoteRows
        /\ dbProjects' = result.projects
        /\ dbNotes' = result.rows
        /\ audioFiles' = result.audio
        /\ nextId' = result.id
        /\ UNCHANGED mnzFiles

PageIdle ==
    /\ UNCHANGED <<playVars, pageVars, waveVars, notes, hookSelectedNote, storeCalls>>
    /\ UNCHANGED initVars
    /\ emitted' = NoEvent

UploadFile ==
    \E fileName \in UploadNames, type \in UploadTypes, fileData \in UploadBytes,
       duration \in UploadDurations :
        handleFileUpload(fileName, type, fileData, duration) /\ PageIdle

CreateNote ==
    \E p \in ProjectIds, note \in StoredNotes :
        StoreNote(p, note[1], note[2], note[3]) /\ PageIdle

ExportProject == \E p \in ProjectIds : exportProject(p) /\ PageIdle

ImportProject == \E file \in mnzFiles : importProject(file) /\ PageIdle

NextExport ==
    \/ UploadFile
    \/ CreateNote
    \/ ExportProject
    \/ ImportProject

SpecExport == Init /\ [][NextExport]_vars

\* the notes of project q correspond one to one to the notes of project p,
\* each with the same timestamp, content and color
NotesCorrespond(rowsP, p, rowsQ, q) ==
    LET original == DbNotesByProject(rowsP, p)
        copies == DbNotesByProject(rowsQ, q)
    IN  /\ Len(copies) = Len(original)
        /\ \A i \in 1..Len(original) :
              /\ copies[i].timestamp = original[i].timestamp
              /\ copies[i].content = original[i].content
              /\ copies[i].color = original[i].color
              /\ copies[i].id \notin {original[k].id : k \in 1..Len(original)}

\* the round trip of project p in the current state: exportProject, then
\* importProject of the file, gives a project as C20 describes
RoundTrip(p) ==
    LET file == Mnz(dbProjects, dbNotes, audioFiles, p)
        result == Imported(file, dbProjects, dbNotes, audioFiles, nextId)
        original == getProjectWithAudio(dbProjects, audioFiles, p)
    IN  file.made =>
          /\ result.ok
          /\ result.project.id \notin ProjectIds
          /\ Len(result.projects) = Len(dbProjects) + 1
          /\ NotesCorrespond(dbNotes, p, result.rows, result.project.id)
          /\ \A i \in 1..Len(dbNotes) : result.rows[i] = dbNotes[i]
          /\ LET copy == getProjectWithAudio(result.projects, result.audio,
                                             result.project.id)
             IN  /\ copy.found
                 /\ copy.fileData = original.fileData
                 /\ copy.project.fileName = original.project.fileName
                 /\ copy.project.duration = original.project.duration
                 /\ copy.project.mimeType = original.project.mimeType

\* C20: exporting a project and importing the resulting .mnz file creates a
\* new project with a new id whose notes correspond one to one to the
\* original project's notes, each with the same timestamp, content and
\* color, and whose audio bytes, file name, duration and mime type equal
\* the original's.
C20_ExportImportRoundTrip == \A p \in ProjectIds : RoundTrip(p)

----------------------------------------------------------------------------
(* Notes are created through the note modal and edited through the list     *)
(* view, with blank and padded texts, the store failing or not.             *)

NextEdit ==
    \/ OpenProject
    \/ toggleView
    \/ addNoteShortcut
    \/ SaveNote
    \/ NoteModalClose
    \/ SettleStoreCall
    \/ ListEdit

SpecEdit == Init /\ [][NextEdit]_vars

\* content.trim() is not empty
NonBlank(note) == Trim(note.content) # ""

\* C21, the states: every note of the list and every row of the table has
\* content that is not blank.
C21_States ==
    /\ \A i \in 1..Len(notes) : NonBlank(notes[i])
    /\ \A i \in 1..Len(dbNotes) : NonBlank(dbNotes[i])

\* C21, the steps: saving a blank modal makes no store call and creates no
\* row; saving a blank edit makes no store call and changes no row.
C21_Step ==
    /\ (\E ok \in BOOLEAN : NoteModalSave(" ", ok))
          => UNCHANGED <<notes, dbNotes, storeCalls>>
    /\ (\E i \in 1..Len(notes), ok \in BOOLEAN : ListEditSave(i, " ", ok))
          => UNCHANGED <<notes, dbNotes, storeCalls>>

\* C21: after any sequence of note creations through the modal and content
\* edits through the list view every note has content that is not blank; a
\* blank modal creates no note and a blank edit leaves the content unchanged.
C21_NotesNeverBlank == []C21_States /\ [][C21_Step]_vars

\* C21 witness: a note created through the modal from a padded text and
\* edited through the list view, the modal open again.
C21_Witness ==
    /\ Len(notes) = 2
    /\ notes[1].content = "c2"
    /\ notes[2].content = "c1"
    /\ showNoteModal
    /\ viewMode = "list"

----------------------------------------------------------------------------
(* Claims on the blocks of generateWaveformData, under SpecAudio. *)

\* the buffers that differ from channelData only in the samples after the
\* last block
SameBlocks(channelData) ==
    LET n == Len(channelData)
        k == SampleCount * (n \div SampleCount)
    IN  {[j \in 1..n |-> IF j <= k THEN channelData[j] ELSE tail[j]] :
            tail \in [(k + 1)..n -> SampleValues]}

\* C22: with blockSize = floor(len / SampleCount), peak i (from 0) is the
\* largest absolute value of the samples with index in
\* [i * blockSize, (i + 1) * blockSize), and the samples with index
\* >= SampleCount * blockSize have no influence on any peak.
C22_PeakIsBlockMaximum ==
    lastDecode.status = "applied"
    => LET channelData == lastDecode.buffer
           blockSize == Len(channelData) \div SampleCount
           peaks == generateWaveformData(channelData)
       IN  /\ \A i \in 0..(SampleCount - 1) :
                 LET block == {j \in 0..(Len(channelData) - 1) :
                                  i * blockSize <= j /\ j < (i + 1) * blockSize}
                 IN  /\ \A j \in block : RLeq(Num(Abs(channelData[j + 1])), peaks[i + 1])
                     /\ block # {} =>
                           \E j \in block : peaks[i + 1] = Num(Abs(channelData[j + 1]))
           /\ \A other \in SameBlocks(channelData) :
                 generateWaveformData(other) = peaks

\* C22 witness: a buffer of 9 samples (blocks of 2) whose last sample, after
\* the last block, is larger in absolute value than every peak.
C22_Witness ==
    /\ lastDecode.status = "applied"
    /\ Len(lastDecode.buffer) = 9
    /\ lastDecode.buffer[9] = -2
    /\ lastDecode.buffer[2] = 1
    /\ SeqMax(generateWaveformData(lastDecode.buffer)) = Num(1)

----------------------------------------------------------------------------
(* DatabaseService.deleteProject.  The table notes declares                 *)
(*   FOREIGN KEY (project_id) REFERENCES projects (id) ON DELETE CASCADE    *)
(* and SQLite acts on it only on a connection with foreign keys enabled     *)
(* (PRAGMA foreign_keys, or the default of the sql.js build).  The service  *)
(* runs no PRAGMA, so the setting is that of the build: foreignKeys is      *)
(* drawn from BOOLEAN.                                                      *)

MaxIds == 4             \* identifiers uuidv4() hands out in one behaviour

\* DELETE FROM projects WHERE id = ?, and the cascade on the table notes
DbDeleteProject(projects, projectId) ==
    SelectSeq(projects, LAMBDA r : r.id # projectId)

DbCascade(rows, projectId, foreignKeys) ==
    IF foreignKeys THEN SelectSeq(rows, LAMBDA r : r.projectId # projectId)
    ELSE rows

\* deleteProject(projectId): deleteAudioFile, then the DELETE
deleteProject(projectId, foreignKeys) ==
    /\ audioFiles' = {r \in audioFiles : r.id # projectId}
    /\ dbProjects' = DbDeleteProject(dbProjects, projectId)
    /\ dbNotes' = DbCascade(dbNotes, projectId, foreignKeys)
    /\ UNCHANGED <<mnzFiles, nextId>>

DeleteProject ==
    \E p \in ProjectIds, foreignKeys \in BOOLEAN :
        deleteProject(p, foreignKeys) /\ PageIdle

UploadOne == nextId <= MaxIds /\ UploadFile

CreateOne == nextId <= MaxIds /\ CreateNote

NextStore ==
    \/ UploadOne
    \/ CreateOne
    \/ DeleteProject

SpecStore == Init /\ [][NextStore]_vars

\* C23: after deleteProject(p) no note with project_id = p remains in the
\* store: getNotesByProject(p) returns the empty list, the project row and
\* its audio file are gone.
C23_DeleteProjectRemovesNotes ==
    [][\A p \in ProjectIds :
          p \notin {dbProjects'[i].id : i \in 1..Len(dbProjects')}
          => /\ DbNotesByProject(dbNotes', p) = <<>>
             /\ \A r \in audioFiles' : r.id # p
      ]_vars

----------------------------------------------------------------------------
(* Claims on the note list of useNoteManager, under SpecNotes. *)

\* C24: the note list held by useNoteManager is sorted by ascending
\* timestamp in every reachable state, after any sequence of loadNotes,
\* addNote, updateNote (content, color or timestamp) and deleteNote.
C24_NotesSortedByTimestamp ==
    \A i, j \in 1..Len(notes) :
        i < j => RLeq(notes[i].timestamp, notes[j].timestamp)

----------------------------------------------------------------------------
(* The route changes between projects while store calls of the previous     *)
(* project are in flight; the store calls succeed.                          *)

ChangeProject ==
    \E p \in Projects :
        /\ p # currentProject
        /\ ProjectLoadedWithin(MaxCallsAtSwitch, p, 6, TRUE)

NextSwitch ==
    \/ ChangeProject
    \/ DecodeDone
    \/ addNoteShortcut
    \/ SaveNoteOk
    \/ SettleStoreCall

SpecSwitch == Init /\ [][NextSwitch]_vars

\* C25: once all store calls in flight have settled, the note list holds
\* only notes of the current project, under every interleaving of a project
\* change with the loadNotes and addNote calls of the previous project.
C25_NotesOfCurrentProject ==
    storeCalls = <<>> =>
        \A i \in 1..Len(notes) : notes[i].projectId = currentProject

----------------------------------------------------------------------------
(* Notes are selected in the list view and deleted; the store calls         *)
(* succeed.                                                                 *)

NextSelect ==
    \/ OpenProject
    \/ DecodeDone
    \/ toggleView
    \/ addNoteShortcut
    \/ SaveNoteOk
    \/ SettleStoreCall
    \/ ListClick
    \/ ListRemoveOk

SpecSelect == Init /\ [][NextSelect]_vars

\* C26: the selected note of ProjectPage is null or a note whose id is in
\* the note list; after deleteNote of the selected note has completed the
\* selection is null, so no details panel or highlight shows a deleted note.
C26_SelectionInNoteList ==
    \/ selectedNote = NoNote
    \/ \E i \in 1..Len(notes) : notes[i].id = selectedNote.id

----------------------------------------------------------------------------
(* Claims on the loading flag of WaveformView, under SpecWave. *)

\* the run of the mounted instance for its current audioFile is awaiting
\* its decode
CurrentDecodeInFlight ==
    /\ waveMounted
    /\ \E i \in 1..Len(decodes) :
          /\ decodes[i].mounted
          /\ ~decodes[i].isCancelled
          /\ decodes[i].file = audioFile

\* C27: the loading flag is true in every state in which a decode for the
\* current audioFile is in flight; it becomes false only when that decode,
\* not an earlier, cancelled one, has completed or failed.
C27_LoadingWhileDecoding == CurrentDecodeInFlight => isLoading

----------------------------------------------------------------------------
(* Claims on the playing flag of useAudioManager, under SpecPreview. *)

\* C28: playbackState.isPlaying is true only while the currently loaded
\* audio element has been started by play() and has since been neither
\* paused nor ended, also after loadAudio has replaced the element while the
\* previous one was playing.
C28_PlayingMeansElementPlays ==
    playbackState.isPlaying => audioRef # 0 /\ ~audios[audioRef].paused

----------------------------------------------------------------------------
(* DatabaseService.initialize under concurrent operations.  db is           *)
(* [object, rows]: which SQL.Database object this.db is (0 = null, and the  *)
(* n-th object created has number n) and the rows it holds.  Operation c is *)
(* a createNote that writes row c.  Its positions:                          *)
(*   "none"     not called                                                  *)
(*   "setup"    in initialize, past the test of this.initialized, awaiting  *)
(*              indexedDBService.initialize() and initSqlJs()               *)
(*   "loading"  awaiting loadDatabaseData()                                 *)
(*   "saving"   row written, awaiting saveDatabase()                        *)
(*   "done"     returned to the caller                                      *)
(* IndexedDB carries out the requests in the order they were made, and the  *)
(* code that awaits a request runs on as soon as the request succeeds.      *)

\* db.run(INSERT ...) of operation c, then saveDatabase() up to its await:
\* db.export() and the put request
RunAndSave(object, rows, c, pending) ==
    /\ db' = [object |-> object, rows |-> rows \cup {c}]
    /\ requests' = Append(pending, [kind |-> "put", operation |-> c,
                                    data |-> rows \cup {c}])
    /\ operations' = [operations EXCEPT ![c] = "saving"]

\* operation c is called: await this.initialize(), which returns at once if
\* initialized is set
Operation(c) ==
    /\ operations[c] = "none"
    /\ IF initialized
       THEN /\ RunAndSave(db.object, db.rows, c, requests)
            /\ UNCHANGED <<initialized, savedData>>
       ELSE /\ operations' = [operations EXCEPT ![c] = "setup"]
            /\ UNCHANGED <<initialized, db, savedData, requests>>

\* initialize of operation c: IndexedDB and sql.js are ready, and
\* loadDatabaseData() makes its get request
LoadDatabaseData(c) ==
    /\ operations[c] = "setup"
    /\ operations' = [operations EXCEPT ![c] = "loading"]
    /\ requests' = Append(requests, [kind |-> "get", operation |-> c, data |-> {}])
    /\ UNCHANGED <<initialized, db, savedData>>

\* IndexedDB carries out its oldest request, and the code awaiting it runs
\* on.  A get: the rest of initialize, this.db = new SQL.Database(savedData)
\* and initialized = true, then the operation's INSERT and saveDatabase().
\* A put: the data is stored, and the operation returns.
RequestDone ==
    /\ requests # <<>>
    /\ LET r == Head(requests) IN
       IF r.kind = "get"
       THEN /\ initialized' = TRUE
            /\ RunAndSave(db.object + 1, savedData, r.operation, Tail(requests))
            /\ UNCHANGED savedData
       ELSE /\ savedData' = r.data
            /\ requests' = Tail(requests)
            /\ operations' = [operations EXCEPT ![r.operation] = "done"]
            /\ UNCHANGED <<initialized, db>>

ServiceIdle ==
    /\ UNCHANGED <<playVars, pageVars, noteVars, waveVars,
                   dbProjects, audioFiles, mnzFiles>>
    /\ emitted' = NoEvent

CallOperation == \E c \in 1..MaxOperations : Operation(c) /\ ServiceIdle

StartLoad == \E c \in 1..MaxOperations : LoadDatabaseData(c) /\ ServiceIdle

FinishRequest == RequestDone /\ ServiceIdle

NextInit ==
    \/ CallOperation
    \/ StartLoad
    \/ FinishRequest

SpecInit == Init /\ [][NextInit]_vars

\* C29: initialize sets the database up at most once, also when several
\* operations call it before the first call has finished: the database
\* object is not replaced after an operation has written to it, and a write
\* that was acknowledged to its caller is in the database later reads use.
C29_InitializeOnce ==
    /\ db.object <= 1
    /\ \A c \in 1..MaxOperations : operations[c] = "done" => c \in db.rows

----------------------------------------------------------------------------
(* Notes are added, edited, moved and deleted with a store whose calls may  *)
(* fail.                                                                    *)

NextFail ==
    \/ OpenProject
    \/ toggleView
    \/ addNoteShortcut
    \/ SaveNote
    \/ SettleStoreCall
    \/ ListEdit
    \/ ListRemove
    \/ MoveNote

SpecFail == Init /\ [][NextFail]_vars

NoteCalls == {"addNote", "updateNote", "deleteNote"}

\* C30: if the store call of addNote, updateNote or deleteNote fails, the
\* note list and the selected note of useNoteManager are left as they were:
\* neither the step that makes the call nor the step in which the rejected
\* promise settles changes them, and the failure is not thrown
\* to the caller (handleSaveNote runs on past its await and closes the modal,
\* no exception reaches the host).
C30_FailedCallChangesNothing ==
    [][/\ ( /\ Len(storeCalls') = Len(storeCalls) + 1
            /\ storeCalls'[Len(storeCalls')].op \in NoteCalls
            /\ ~storeCalls'[Len(storeCalls')].ok )
          => UNCHANGED <<notes, hookSelectedNote>>
       /\ \A i \in 1..Len(storeCalls) :
             ( /\ storeCalls[i].op \in NoteCalls
               /\ ~storeCalls[i].ok
               /\ storeCalls' = RemoveAt(storeCalls, i) )
             => /\ UNCHANGED <<notes, hookSelectedNote>>
                /\ ~hostError'
                /\ storeCalls[i].op = "addNote" => ~showNoteModal'
      ]_vars

\* C30 witness: the deletion of the note that useNoteManager has selected
\* has failed in the store and has not settled yet.
C30_Witness ==
    /\ Len(storeCalls) = 1
    /\ storeCalls[1].op = "deleteNote"
    /\ ~storeCalls[1].ok
    /\ hookSelectedNote.id = storeCalls[1].id
    /\ \E i \in 1..Len(notes) : notes[i].id = storeCalls[1].id

====
